---- MODULE Spec2Model ----
(***************************************************************************)
(* The ten-step cleaning pipeline of the notebook built by                 *)
(* build_notebook.py, the generator generate_messy_data.py and the         *)
(* statistics of build_case_study.py.                                      *)
(*                                                                         *)
(* A Python str is a sequence of characters; a character is a one-letter   *)
(* TLA+ string, or a token such as "U+20AC" for a character outside ASCII. *)
(* np.nan (the absent marker) is the value NaN below, which is no str.     *)
(* A float is held by its repr (45.0 is "45.0"), as DataFrame.to_csv       *)
(* writes it.                                                              *)
(***************************************************************************)
EXTENDS Integers, Sequences, FiniteSets, TLC

VARIABLES
    pc,             \* position in the notebook: which cell runs next
    df_raw,         \* the table read from the CSV file
    df,             \* the working copy the ten steps clean
    before_shape,   \* snapshot: <<rows, columns>> of df_raw
    before_dtypes,  \* snapshot: column -> dtype of df_raw
    before_nulls,   \* snapshot: null cells of df_raw (a notebook global)
    before_sample,  \* snapshot: df_raw.head(6)
    dups_removed,   \* step 2: rows_before - rows_after
    after_shape,    \* df.shape, taken by the summary cell
    summary_data,   \* the figures of the cleaning summary table
    schema_data,    \* the "Before" and "After" figures of the schema comparison
    df_clean,       \* the report: the table read from the exported CSV file
    messy_samples,  \* the report: the rows of df_raw it shows as "before"
    clean_samples,  \* the report: the rows of df_clean it shows as "after"
    gen_df,         \* the generator: the table it builds, as written to the file
    fn,             \* function-level runs: the function applied
    arg,            \* its input value
    res,            \* its result
    res2,           \* the result of applying it to res
    origin          \* the calendar date and format arg was rendered from

vars == <<pc, df_raw, df, before_shape, before_dtypes, before_nulls,
          before_sample, dups_removed, after_shape, summary_data, schema_data,
          df_clean, messy_samples, clean_samples, gen_df,
          fn, arg, res, res2, origin>>

pipeVars == <<df_raw, df, before_shape, before_dtypes, before_nulls,
              before_sample, dups_removed, after_shape, summary_data, schema_data>>

reportVars == <<df_clean, messy_samples, clean_samples>>

\* what the notebook and the function-level runs leave alone
otherVars == <<reportVars, gen_df>>

fnVars == <<fn, arg, res, res2, origin>>

(***************************************************************************)
(* Python str primitives                                                   *)
(***************************************************************************)
\* a str literal as a sequence of characters
S(s) == [i \in 1..Len(s) |-> SubSeq(s, i, i)]

\* np.nan
NaN == <<"NaN">>

isna(val) == val = NaN

\* characters outside ASCII
Euro == "U+20AC"
Pound == "U+00A3"

\* what str.strip() removes, among the characters of the model: the space,
\* NEXT LINE (U+0085) and NO-BREAK SPACE (U+00A0)
Whitespace == {" ", "U+0085", "U+00A0"}

Digits == {"0", "1", "2", "3", "4", "5", "6", "7", "8", "9"}

DigitVal(c) ==
    CASE c = "0" -> 0 [] c = "1" -> 1 [] c = "2" -> 2 [] c = "3" -> 3
      [] c = "4" -> 4 [] c = "5" -> 5 [] c = "6" -> 6 [] c = "7" -> 7
      [] c = "8" -> 8 [] c = "9" -> 9

DigitChar(n) == S("0123456789")[n + 1]

LowerCase == S("abcdefghijklmnopqrstuvwxyz")

UpperCase == S("ABCDEFGHIJKLMNOPQRSTUVWXYZ")

upperChar(c) ==
    IF \E i \in 1..26 : LowerCase[i] = c
    THEN UpperCase[CHOOSE i \in 1..26 : LowerCase[i] = c]
    ELSE c

lowerChar(c) ==
    IF \E i \in 1..26 : UpperCase[i] = c
    THEN LowerCase[CHOOSE i \in 1..26 : UpperCase[i] = c]
    ELSE c

upper(s) == [i \in 1..Len(s) |-> upperChar(s[i])]

lower(s) == [i \in 1..Len(s) |-> lowerChar(s[i])]

RECURSIVE lstrip(_, _)
lstrip(s, cs) ==
    IF s # <<>> /\ Head(s) \in cs THEN lstrip(Tail(s), cs) ELSE s

RECURSIVE rstrip(_, _)
rstrip(s, cs) ==
    IF s # <<>> /\ s[Len(s)] \in cs
    THEN rstrip(SubSeq(s, 1, Len(s) - 1), cs)
    ELSE s

\* s.strip(cs)
stripChars(s, cs) == rstrip(lstrip(s, cs), cs)

\* s.strip()
strip(s) == stripChars(s, Whitespace)

\* s.replace(old, new), old not empty: left to right, not overlapping
RECURSIVE replace(_, _, _)
replace(s, old, new) ==
    IF Len(s) < Len(old) THEN s
    ELSE IF SubSeq(s, 1, Len(old)) = old
         THEN new \o replace(SubSeq(s, Len(old) + 1, Len(s)), old, new)
         ELSE <<Head(s)>> \o replace(Tail(s), old, new)

\* c in s
contains(s, c) == \E i \in 1..Len(s) : s[i] = c

\* s.rfind(c), counted from 1; 0 when c is not in s
rfind(s, c) ==
    IF contains(s, c)
    THEN CHOOSE i \in 1..Len(s) : s[i] = c /\ \A j \in (i + 1)..Len(s) : s[j] # c
    ELSE 0

startswith(s, p) == Len(s) >= Len(p) /\ SubSeq(s, 1, Len(p)) = p

(***************************************************************************)
(* Step 5: clean_sku                                                       *)
(***************************************************************************)
\* a slip: the dash is inserted without looking at the fourth character
clean_sku_always_dash(val) ==
    IF isna(val) THEN NaN
    ELSE LET s == upper(strip(val))
         IN  IF startswith(s, S("SKU")) /\ Len(s) > 3
             THEN S("SKU-") \o SubSeq(s, 4, Len(s))
             ELSE s

\* a slip: a value that gets no dash comes back trimmed but not uppercased
clean_sku_upper_on_dash_only(val) ==
    IF isna(val) THEN NaN
    ELSE LET s == upper(strip(val))
         IN  IF startswith(s, S("SKU")) /\ Len(s) > 3 /\ s[4] # "-"
             THEN S("SKU-") \o SubSeq(s, 4, Len(s))
             ELSE strip(val)

\* a slip: the value is trimmed and gets its dash, in the casing it came in
clean_sku_keeps_case(val) ==
    IF isna(val) THEN NaN
    ELSE LET s == strip(val)
         IN  IF startswith(upper(s), S("SKU")) /\ Len(s) > 3 /\ s[4] # "-"
             THEN SubSeq(s, 1, 3) \o S("-") \o SubSeq(s, 4, Len(s))
             ELSE s

clean_sku(val) ==
    IF isna(val) THEN NaN
    ELSE LET s == upper(strip(val))
         IN  IF startswith(s, S("SKU")) /\ Len(s) > 3 /\ s[4] # "-"
             THEN S("SKU-") \o SubSeq(s, 4, Len(s))
             ELSE s

(***************************************************************************)
(* Step 6: coerce_null                                                     *)
(***************************************************************************)
FAKE_NULLS ==
    {S("N/A"), S("n/a"), S("na"), S("NA"), S("-"), S("--"), S("."),
     S("none"), S("None"), S("null"), S("NULL"), <<>>}

\* a slip: the value is compared with the sentinels without being trimmed
coerce_null_untrimmed(val) ==
    IF isna(val) THEN NaN
    ELSE IF val \in FAKE_NULLS THEN NaN
    ELSE val

coerce_null(val) ==
    IF isna(val) THEN NaN
    ELSE IF strip(val) \in FAKE_NULLS THEN NaN
    ELSE val

(***************************************************************************)
(* Step 8: clean_phone                                                     *)
(***************************************************************************)
IsDigit(c) == c \in Digits

\* a slip: any 8 or 11 digits lose their first digit, whatever it is
clean_phone_drops_any_lead(val) ==
    IF isna(val) THEN NaN
    ELSE LET digits == SelectSeq(val, IsDigit)
             n == Len(digits)
             seven(d) == S("555-") \o SubSeq(d, 1, 3) \o S("-") \o SubSeq(d, 4, 7)
             ten(d) == SubSeq(d, 1, 3) \o S("-") \o SubSeq(d, 4, 6) \o S("-") \o SubSeq(d, 7, 10)
         IN  IF n = 7 THEN seven(digits)
             ELSE IF n = 8 THEN seven(Tail(digits))
             ELSE IF n = 10 THEN ten(digits)
             ELSE IF n = 11 THEN ten(Tail(digits))
             ELSE NaN

\* a slip: a value without a digit comes back as it was given
clean_phone_keeps_digitless(val) ==
    IF isna(val) THEN NaN
    ELSE LET digits == SelectSeq(val, IsDigit)
             n == Len(digits)
         IN  IF n = 0 THEN val
             ELSE IF n = 7
                  THEN S("555-") \o SubSeq(digits, 1, 3) \o S("-") \o SubSeq(digits, 4, 7)
             ELSE IF n = 8 /\ digits[1] = "1"
                  THEN LET d == Tail(digits)
                       IN  S("555-") \o SubSeq(d, 1, 3) \o S("-") \o SubSeq(d, 4, 7)
             ELSE IF n = 10
                  THEN SubSeq(digits, 1, 3) \o S("-") \o SubSeq(digits, 4, 6)
                       \o S("-") \o SubSeq(digits, 7, 10)
             ELSE IF n = 11 /\ digits[1] = "1"
                  THEN LET d == Tail(digits)
                       IN  SubSeq(d, 1, 3) \o S("-") \o SubSeq(d, 4, 6)
                           \o S("-") \o SubSeq(d, 7, 10)
             ELSE NaN

clean_phone(val) ==
    IF isna(val) THEN NaN
    ELSE LET digits == SelectSeq(val, IsDigit)
             n == Len(digits)
         IN  IF n = 0 THEN NaN
             ELSE IF n = 7
                  THEN S("555-") \o SubSeq(digits, 1, 3) \o S("-") \o SubSeq(digits, 4, 7)
             ELSE IF n = 8 /\ digits[1] = "1"
                  THEN LET d == Tail(digits)
                       IN  S("555-") \o SubSeq(d, 1, 3) \o S("-") \o SubSeq(d, 4, 7)
             ELSE IF n = 10
                  THEN SubSeq(digits, 1, 3) \o S("-") \o SubSeq(digits, 4, 6)
                       \o S("-") \o SubSeq(digits, 7, 10)
             ELSE IF n = 11 /\ digits[1] = "1"
                  THEN LET d == Tail(digits)
                       IN  SubSeq(d, 1, 3) \o S("-") \o SubSeq(d, 4, 6)
                           \o S("-") \o SubSeq(d, 7, 10)
             ELSE NaN

(***************************************************************************)
(* Step 9: clean_country                                                   *)
(***************************************************************************)
COUNTRY_MAP ==
    S("us") :> S("US") @@ S("usa") :> S("US") @@ S("united states") :> S("US")
    @@ S("ca") :> S("CA") @@ S("canada") :> S("CA")
    @@ S("gb") :> S("GB") @@ S("uk") :> S("GB") @@ S("united kingdom") :> S("GB")
    @@ S("de") :> S("DE") @@ S("germany") :> S("DE")
    @@ S("fr") :> S("FR") @@ S("france") :> S("FR")
    @@ S("au") :> S("AU") @@ S("australia") :> S("AU")

\* a slip: an unmapped value comes back trimmed
clean_country_trims_unmapped(val) ==
    IF isna(val) THEN NaN
    ELSE LET key == lower(strip(val))
         IN  IF key \in DOMAIN COUNTRY_MAP THEN COUNTRY_MAP[key] ELSE strip(val)

\* a slip: an unmapped value comes back as its lookup key (trimmed, lowercased)
clean_country_returns_key(val) ==
    IF isna(val) THEN NaN
    ELSE LET key == lower(strip(val))
         IN  IF key \in DOMAIN COUNTRY_MAP THEN COUNTRY_MAP[key] ELSE key

clean_country(val) ==
    IF isna(val) THEN NaN
    ELSE LET key == lower(strip(val))
         IN  IF key \in DOMAIN COUNTRY_MAP THEN COUNTRY_MAP[key] ELSE val

(***************************************************************************)
(* Step 10: clean_status                                                   *)
(***************************************************************************)
STATUS_TYPO_MAP ==
    S("deliverred") :> S("delivered") @@ S("cancellled") :> S("cancelled")

\* a slip: the typo map is looked up before the value is lowercased
clean_status_lookup_before_lower(val) ==
    IF isna(val) THEN NaN
    ELSE LET s == strip(val)
         IN  IF s \in DOMAIN STATUS_TYPO_MAP THEN STATUS_TYPO_MAP[s] ELSE lower(s)

\* a slip: the value is trimmed and lowercased, the typo map is not applied
clean_status_keeps_typos(val) ==
    IF isna(val) THEN NaN ELSE lower(strip(val))

clean_status(val) ==
    IF isna(val) THEN NaN
    ELSE LET s == lower(strip(val))
         IN  IF s \in DOMAIN STATUS_TYPO_MAP THEN STATUS_TYPO_MAP[s] ELSE s

(***************************************************************************)
(* Python float: float(s), round(x, 2) and repr                            *)
(***************************************************************************)
RECURSIVE NumVal(_)
\* the number a sequence of digits writes (0 for none)
NumVal(ds) ==
    IF ds = <<>> THEN 0
    ELSE 10 * NumVal(SubSeq(ds, 1, Len(ds) - 1)) + DigitVal(ds[Len(ds)])

RECURSIVE IntStr(_)
\* str(n), n >= 0
IntStr(n) ==
    IF n < 10 THEN <<DigitChar(n)>> ELSE IntStr(n \div 10) \o <<DigitChar(n % 10)>>

\* float(s) for a str of digits, '.', ',' and other characters without sign,
\* exponent, underscore, "inf" or "nan": surrounding whitespace is ignored,
\* then digits with at most one '.', and at least one digit. ok = FALSE is
\* ValueError. ip and fp are the digits before and after the point.
PyFloat(s) ==
    LET t == strip(s)
        dot == rfind(t, ".")
        ip == IF dot = 0 THEN t ELSE SubSeq(t, 1, dot - 1)
        fp == IF dot = 0 THEN <<>> ELSE SubSeq(t, dot + 1, Len(t))
    IN  [ok |-> /\ \A i \in 1..Len(ip) : ip[i] \in Digits
                /\ \A i \in 1..Len(fp) : fp[i] \in Digits
                /\ Len(ip) + Len(fp) > 0,
         ip |-> ip, fp |-> fp]

RECURSIVE Pow2Mod1000(_)
Pow2Mod1000(e) == IF e = 0 THEN 1 ELSE (2 * Pow2Mod1000(e - 1)) % 1000

RECURSIVE ScaleUp(_, _)
\* the least t with n * 2^t >= 1000
ScaleUp(n, t) == IF n >= 1000 THEN t ELSE ScaleUp(2 * n, t + 1)

RECURSIVE ScaleDown(_, _)
\* the greatest j with 1000 * 2^j <= n
ScaleDown(n, j) == IF n < 2000 THEN j ELSE ScaleDown(n \div 2, j + 1)

\* Whether the IEEE double nearest to n/1000 (n > 0 ending in 5: a decimal
\* tie between two hundredths) rounds up to the next hundredth. round() rounds
\* the double's exact value: above the tie it goes up, below it goes down, and
\* an exactly representable tie (125 divides n) goes to the even hundredth.
TieRoundsUp(n) ==
    IF n % 125 = 0 THEN (n \div 10) % 2 = 1
    ELSE LET e == IF n < 1000 THEN 52 + ScaleUp(n, 0) ELSE 52 - ScaleDown(n, 0)
             r == ((n % 1000) * Pow2Mod1000(e)) % 1000
         IN  r > 500

\* round(float(s), 2) in hundredths, for f = PyFloat(s) with f.ok
Round2(f) ==
    LET fp2 == SubSeq(f.fp \o <<"0", "0">>, 1, 2)
        base == 100 * NumVal(f.ip) + NumVal(fp2)
        rest == IF Len(f.fp) > 2 THEN SubSeq(f.fp, 3, Len(f.fp)) ELSE <<>>
        tail == IF rest = <<>> THEN <<>> ELSE Tail(rest)
        tailZero == \A i \in 1..Len(tail) : tail[i] = "0"
        up == IF rest = <<>> THEN FALSE
              ELSE IF DigitVal(rest[1]) > 5 THEN TRUE
              ELSE IF DigitVal(rest[1]) < 5 THEN FALSE
              ELSE IF ~tailZero THEN TRUE
              ELSE TieRoundsUp(10 * base + 5)
    IN  base + (IF up THEN 1 ELSE 0)

\* repr of the float c/100, c >= 0: 4500 is "45.0", 1999 is "19.99"
FloatRepr(c) ==
    IntStr(c \div 100) \o <<".">> \o
    (IF c % 10 = 0 THEN <<DigitChar((c % 100) \div 10)>>
     ELSE <<DigitChar((c % 100) \div 10), DigitChar(c % 10)>>)

(***************************************************************************)
(* Step 4: clean_price                                                     *)
(***************************************************************************)
\* line 203: the currency symbols and words clean_price removes
strip_currency(s) ==
    strip(replace(replace(replace(replace(s, S("$"), <<>>), S("USD"), <<>>),
                          S("TL"), <<>>), <<Euro>>, <<>>))

\* a slip: the later separator is found with the first occurrence of ','
price_separators_first_comma(s) ==
    LET firstComma == CHOOSE i \in 1..Len(s) : s[i] = "," /\ \A j \in 1..(i - 1) : s[j] # ","
    IN  IF contains(s, ",") /\ contains(s, ".")
        THEN IF firstComma > rfind(s, ".")
             THEN replace(replace(s, S("."), <<>>), S(","), S("."))
             ELSE replace(s, S(","), <<>>)
        ELSE IF contains(s, ",") /\ ~contains(s, ".")
             THEN replace(s, S(","), S("."))
             ELSE s

\* lines 206-215: the decimal separator
price_separators(s) ==
    IF contains(s, ",") /\ contains(s, ".")
    THEN IF rfind(s, ",") > rfind(s, ".")
         THEN replace(replace(s, S("."), <<>>), S(","), S("."))
         ELSE replace(s, S(","), <<>>)
    ELSE IF contains(s, ",") /\ ~contains(s, ".")
         THEN replace(s, S(","), S("."))
         ELSE s

clean_price(val) ==
    IF isna(val) THEN NaN
    ELSE LET s == price_separators(strip_currency(strip(val)))
             f == PyFloat(s)
         IN  IF f.ok THEN FloatRepr(Round2(f)) ELSE NaN

(***************************************************************************)
(* Dates: strftime (the generator) and pd.to_datetime(val, format=fmt)     *)
(* (step 3). A format is a sequence of directives and literal characters.  *)
(***************************************************************************)
MONTH_ABBR ==
    <<S("Jan"), S("Feb"), S("Mar"), S("Apr"), S("May"), S("Jun"),
      S("Jul"), S("Aug"), S("Sep"), S("Oct"), S("Nov"), S("Dec")>>

IsLeap(y) == (y % 4 = 0 /\ y % 100 # 0) \/ y % 400 = 0

DaysIn(y, m) ==
    IF m = 2 THEN (IF IsLeap(y) THEN 29 ELSE 28)
    ELSE IF m \in {4, 6, 9, 11} THEN 30 ELSE 31

IsCalendarDate(y, m, d) == m \in 1..12 /\ d >= 1 /\ d <= DaysIn(y, m)

\* the days a nanosecond Timestamp holds: 1677-09-22 to 2262-04-11; a date
\* outside is OutOfBoundsDatetime, a ValueError
InTimestampRange(y, m, d) ==
    /\ \/ y > 1677 \/ (y = 1677 /\ (m > 9 \/ (m = 9 /\ d >= 22)))
    /\ \/ y < 2262 \/ (y = 2262 /\ (m < 4 \/ (m = 4 /\ d <= 11)))

\* n written with at least w digits
Pad(n, w) ==
    LET ds == IntStr(n)
    IN  IF Len(ds) >= w THEN ds ELSE [i \in 1..(w - Len(ds)) |-> "0"] \o ds

RECURSIVE Strftime(_, _, _, _)
\* dt.strftime(fmt) of the date y-m-d; "%-m", "%-d" (no padding) and "%y"
\* occur only in raw inputs, the code uses none of them
Strftime(fmt, y, m, d) ==
    IF fmt = <<>> THEN <<>>
    ELSE LET tok == Head(fmt)
             out == CASE tok = "%Y" -> Pad(y, 4)
                      [] tok = "%y" -> Pad(y % 100, 2)
                      [] tok = "%m" -> Pad(m, 2)
                      [] tok = "%-m" -> IntStr(m)
                      [] tok = "%d" -> Pad(d, 2)
                      [] tok = "%-d" -> IntStr(d)
                      [] tok = "%b" -> MONTH_ABBR[m]
                      [] OTHER -> <<tok>>
         IN  out \o Strftime(Tail(fmt), y, m, d)

NoMatch == [ok |-> FALSE, rest |-> <<>>, y |-> 0, m |-> 0, d |-> 0]

AllDigits(s) == \A i \in 1..Len(s) : s[i] \in Digits

\* the regular expression of %m: 1[0-2]|0[1-9]|[1-9], as the lengths to try in order
MonthAlternatives(s) ==
    (IF Len(s) >= 2 /\ AllDigits(SubSeq(s, 1, 2)) /\ NumVal(SubSeq(s, 1, 2)) \in 1..12
     THEN <<2>> ELSE <<>>)
    \o (IF Len(s) >= 1 /\ s[1] \in Digits \ {"0"} THEN <<1>> ELSE <<>>)

\* the regular expression of %d: 3[0-1]|[1-2]\d|0[1-9]|[1-9]| [1-9]
DayAlternatives(s) ==
    (IF Len(s) >= 2 /\ AllDigits(SubSeq(s, 1, 2)) /\ NumVal(SubSeq(s, 1, 2)) \in 1..31
     THEN <<2>> ELSE <<>>)
    \o (IF Len(s) >= 1 /\ s[1] \in Digits \ {"0"} THEN <<1>> ELSE <<>>)
    \o (IF Len(s) >= 2 /\ s[1] = " " /\ s[2] \in Digits \ {"0"} THEN <<2>> ELSE <<>>)

RECURSIVE Match(_, _, _)
\* re.match of the format's regular expression at the start of s: the first
\* alternative of each directive that lets the rest of the format match.
\* rest is what follows the match.
Match(s, fmt, acc) ==
    IF fmt = <<>> THEN [acc EXCEPT !.ok = TRUE, !.rest = s]
    ELSE LET tok == Head(fmt)
             more == Tail(fmt)
             take(n) == SubSeq(s, 1, n)
             drop(n) == SubSeq(s, n + 1, Len(s))
             num(n) == NumVal(SelectSeq(take(n), IsDigit))
         IN  CASE tok = "%Y" ->
                    IF Len(s) >= 4 /\ AllDigits(take(4))
                    THEN Match(drop(4), more, [acc EXCEPT !.y = NumVal(take(4))])
                    ELSE NoMatch
               [] tok = "%m" ->
                    LET alts == MonthAlternatives(s)
                        try(i) == Match(drop(alts[i]), more, [acc EXCEPT !.m = num(alts[i])])
                    IN  IF \E i \in 1..Len(alts) : try(i).ok
                        THEN try(CHOOSE i \in 1..Len(alts) :
                                     try(i).ok /\ \A j \in 1..(i - 1) : ~try(j).ok)
                        ELSE NoMatch
               [] tok = "%d" ->
                    LET alts == DayAlternatives(s)
                        try(i) == Match(drop(alts[i]), more, [acc EXCEPT !.d = num(alts[i])])
                    IN  IF \E i \in 1..Len(alts) : try(i).ok
                        THEN try(CHOOSE i \in 1..Len(alts) :
                                     try(i).ok /\ \A j \in 1..(i - 1) : ~try(j).ok)
                        ELSE NoMatch
               [] tok = "%b" ->
                    IF Len(s) >= 3 /\ \E k \in 1..12 : lower(MONTH_ABBR[k]) = lower(take(3))
                    THEN Match(drop(3), more,
                               [acc EXCEPT !.m = CHOOSE k \in 1..12 :
                                                     lower(MONTH_ABBR[k]) = lower(take(3))])
                    ELSE NoMatch
               [] tok = " " ->
                    \* whitespace in a format is \s+
                    IF Len(s) >= 1 /\ s[1] \in Whitespace
                    THEN Match(lstrip(s, Whitespace), more, acc)
                    ELSE NoMatch
               [] OTHER ->
                    IF Len(s) >= 1 /\ lowerChar(s[1]) = lowerChar(tok)
                    THEN Match(drop(1), more, acc)
                    ELSE NoMatch

\* pd.to_datetime(val, format=fmt) of a str: ok = FALSE is ValueError (no
\* match, unconverted data remains, a day the month does not have, a date
\* out of range, or the empty string, whose NaT has no strftime)
to_datetime(val, fmt) ==
    LET r == Match(val, fmt, NoMatch)
    IN  IF r.ok /\ r.rest = <<>> /\ IsCalendarDate(r.y, r.m, r.d)
           /\ InTimestampRange(r.y, r.m, r.d)
        THEN r
        ELSE NoMatch

\* a slip: the third format reads the month first
DATE_FORMATS_month_first ==
    << <<"%m", "/", "%d", "/", "%Y">>,
       <<"%Y", "-", "%m", "-", "%d">>,
       <<"%m", "-", "%d", "-", "%Y">>,
       <<"%b", " ", "%d", ",", " ", "%Y">>,
       <<"%d", ".", "%m", ".", "%Y">> >>

\* a slip: the last format reads day/month/year with slashes
DATE_FORMATS_day_first_slash ==
    << <<"%m", "/", "%d", "/", "%Y">>,
       <<"%Y", "-", "%m", "-", "%d">>,
       <<"%d", "-", "%m", "-", "%Y">>,
       <<"%b", " ", "%d", ",", " ", "%Y">>,
       <<"%d", "/", "%m", "/", "%Y">> >>

\* line 170
DATE_FORMATS ==
    << <<"%m", "/", "%d", "/", "%Y">>,
       <<"%Y", "-", "%m", "-", "%d">>,
       <<"%d", "-", "%m", "-", "%Y">>,
       <<"%b", " ", "%d", ",", " ", "%Y">>,
       <<"%d", ".", "%m", ".", "%Y">> >>

RECURSIVE try_formats(_, _, _)
\* lines 176-181: the loop over the formats, from the i-th on
try_formats(val, formats, i) ==
    IF i > Len(formats) THEN NaN
    ELSE LET r == to_datetime(val, formats[i])
         IN  IF r.ok THEN Strftime(<<"%Y", "-", "%m", "-", "%d">>, r.y, r.m, r.d)
             ELSE try_formats(val, formats, i + 1)

\* a slip: the last format is never tried
parse_date_drops_last_format(val) ==
    IF isna(val) THEN NaN
    ELSE try_formats(stripChars(stripChars(strip(val), {"\""}), {"'"}),
                     SubSeq(DATE_FORMATS, 1, Len(DATE_FORMATS) - 1), 1)

parse_date(val) ==
    IF isna(val) THEN NaN
    ELSE try_formats(stripChars(stripChars(strip(val), {"\""}), {"'"}),
                     DATE_FORMATS, 1)

\* generate_messy_data.py: the formats the generator renders dates with
GEN_DATE_FORMATS ==
    << <<"%m", "/", "%d", "/", "%Y">>,
       <<"%Y", "-", "%m", "-", "%d">>,
       <<"%d", "-", "%m", "-", "%Y">>,
       <<"%b", " ", "%d", ",", " ", "%Y">>,
       <<"%d", ".", "%m", ".", "%Y">> >>

\* messy_date with random.choice(DATE_FORMATS) = the f-th format
messy_date(y, m, d, f) == Strftime(GEN_DATE_FORMATS[f], y, m, d)

(***************************************************************************)
(* Step 7: fix_encoding. A byte is an ASCII character or a token "xHH".    *)
(***************************************************************************)
HexChars == S("0123456789ABCDEF")

HexVal(h) == (CHOOSE i \in 1..16 : HexChars[i] = h) - 1

RECURSIVE HexNum(_)
HexNum(hs) ==
    IF hs = <<>> THEN 0
    ELSE 16 * HexNum(SubSeq(hs, 1, Len(hs) - 1)) + HexVal(hs[Len(hs)])

RECURSIVE HexStr(_, _)
\* n in at least w hexadecimal digits
HexStr(n, w) ==
    IF n = 0 /\ w <= 0 THEN ""
    ELSE HexStr(n \div 16, w - 1) \o HexChars[(n % 16) + 1]

IsAscii(c) == Len(c) = 1

\* ord(c) of a character outside ASCII, the token "U+XXXX"
CodePoint(c) == HexNum(SubSeq(S(c), 3, Len(c)))

\* chr(n), n >= 128
Chr(n) == "U+" \o HexStr(n, 4)

\* the value of a byte "xHH"
ByteVal(b) == HexNum(SubSeq(S(b), 2, 3))

\* s.encode("latin-1"): ok = FALSE is UnicodeEncodeError
encode_latin1(s) ==
    [ok |-> \A i \in 1..Len(s) : IsAscii(s[i]) \/ CodePoint(s[i]) <= 255,
     bytes |-> [i \in 1..Len(s) |->
                   IF IsAscii(s[i]) THEN s[i] ELSE "x" \o HexStr(CodePoint(s[i]), 2)]]

IsContinuation(bs, i, lo, hi) ==
    i <= Len(bs) /\ ~IsAscii(bs[i]) /\ ByteVal(bs[i]) >= lo /\ ByteVal(bs[i]) <= hi

RECURSIVE decode_utf8(_)
\* bs.decode("utf-8"): ok = FALSE is UnicodeDecodeError
decode_utf8(bs) ==
    IF bs = <<>> THEN [ok |-> TRUE, s |-> <<>>]
    ELSE IF IsAscii(bs[1])
    THEN LET r == decode_utf8(Tail(bs))
         IN  [ok |-> r.ok, s |-> <<bs[1]>> \o r.s]
    ELSE LET v == ByteVal(bs[1])
             c(i) == ByteVal(bs[i]) - 128
             n == IF v >= 194 /\ v <= 223 THEN 2
                  ELSE IF v >= 224 /\ v <= 239 THEN 3
                  ELSE IF v >= 240 /\ v <= 244 THEN 4
                  ELSE 0
             lo2 == IF v = 224 THEN 160 ELSE IF v = 240 THEN 144 ELSE 128
             hi2 == IF v = 237 THEN 159 ELSE IF v = 244 THEN 143 ELSE 191
             wellFormed ==
                 /\ n > 0
                 /\ IsContinuation(bs, 2, lo2, hi2)
                 /\ \A i \in 3..n : IsContinuation(bs, i, 128, 191)
             cp == IF n = 2 THEN (v - 192) * 64 + c(2)
                   ELSE IF n = 3 THEN (v - 224) * 4096 + c(2) * 64 + c(3)
                   ELSE (v - 240) * 262144 + c(2) * 4096 + c(3) * 64 + c(4)
         IN  IF wellFormed
             THEN LET r == decode_utf8(SubSeq(bs, n + 1, Len(bs)))
                  IN  [ok |-> r.ok, s |-> <<Chr(cp)>> \o r.s]
             ELSE [ok |-> FALSE, s |-> <<>>]

\* s.encode("utf-8")
encode_utf8(s) ==
    LET byte(n) == "x" \o HexStr(n, 2)
        unit(c) ==
            IF IsAscii(c) THEN <<c>>
            ELSE LET cp == CodePoint(c)
                 IN  IF cp < 2048
                     THEN <<byte(192 + (cp \div 64)), byte(128 + (cp % 64))>>
                     ELSE IF cp < 65536
                     THEN <<byte(224 + (cp \div 4096)), byte(128 + ((cp \div 64) % 64)),
                            byte(128 + (cp % 64))>>
                     ELSE <<byte(240 + (cp \div 262144)), byte(128 + ((cp \div 4096) % 64)),
                            byte(128 + ((cp \div 64) % 64)), byte(128 + (cp % 64))>>
        RECURSIVE units(_)
        units(x) == IF x = <<>> THEN <<>> ELSE unit(x[1]) \o units(Tail(x))
    IN  units(s)

\* a slip: when the round trip fails the value comes back as it was given
fix_encoding_fallback_untrimmed(val) ==
    IF isna(val) THEN NaN
    ELSE LET s == strip(val)
             enc == encode_latin1(s)
             dec == decode_utf8(enc.bytes)
         IN  IF enc.ok /\ dec.ok THEN strip(dec.s) ELSE val

\* a slip: the value is trimmed, the round trip is not made
fix_encoding_only_trims(val) ==
    IF isna(val) THEN NaN ELSE strip(val)

fix_encoding(val) ==
    IF isna(val) THEN NaN
    ELSE LET s == strip(val)
             enc == encode_latin1(s)
             dec == decode_utf8(enc.bytes)
         IN  IF enc.ok /\ dec.ok THEN strip(dec.s) ELSE strip(s)

(***************************************************************************)
(* Bounds and input values                                                 *)
(***************************************************************************)
MaxPriceLen == 4

MaxSkuTail == 2

MaxPhoneDigits == 12

NumYears == 2

RECURSIVE Strs(_, _)
\* every str of at most n characters of cs
Strs(cs, n) ==
    IF n = 0 THEN {<<>>}
    ELSE LET shorter == Strs(cs, n - 1)
         IN  shorter \cup {Append(s, c) : s \in {x \in shorter : Len(x) = n - 1}, c \in cs}

capitalize(s) ==
    IF s = <<>> THEN s ELSE <<upperChar(s[1])>> \o lower(Tail(s))

Paddings(s) == {s, S(" ") \o s, s \o S("  "), S(" ") \o s \o S(" ")}

Unset == <<"unset">>

NoOrigin == [y |-> 0, m |-> 0, d |-> 0, f |-> 0, w |-> 0]

\* raw prices: an amount with separators, between currency markers
PriceInputs ==
    {pre \o body \o post :
        pre \in {<<>>, S("$"), <<Euro>>, <<Pound>>, S("USD ")},
        body \in Strs({"1", "5", ",", ".", " "}, MaxPriceLen),
        post \in {<<>>, S(" TL")}}
    \cup {<<Euro>> \o S("1.234,56"), S("19,99"), S("$45.00"), <<Pound>> \o S("45.00"),
          S("USD 45.00"), S("45.00 TL"), S("1,234.56"), S("1.234.567,8"),
          S("2.675"), S("0.125"), S("45.0"), NaN}

\* raw SKUs: a prefix, a separator and a tail
SkuInputs ==
    UNION {Paddings(pre \o sep \o tail) :
        pre \in {S("SKU"), S("sku"), S("Sku"), S("sk"), S("AB"), <<>>},
        sep \in {<<>>, S("-"), S("--"), S(" ")},
        tail \in Strs({"0", "1", "x"}, MaxSkuTail)}
    \cup {S("sku001"), S("Sku-010"), S("SKU-003"), NaN}

RECURSIVE Grouped(_, _)
\* the digits in groups of three with c between the groups
Grouped(ds, c) ==
    IF Len(ds) <= 3 THEN ds
    ELSE SubSeq(ds, 1, 3) \o <<c>> \o Grouped(SubSeq(ds, 4, Len(ds)), c)

\* raw phones: every count of digits up to MaxPhoneDigits, written several ways
PhoneInputs ==
    UNION {{ds, S("+") \o Grouped(ds, "-"), S("(") \o Grouped(ds, " ") \o S(")"),
            Grouped(ds, "."), S(" ") \o ds \o S(" ")} :
        ds \in {SubSeq(<<first>> \o S("555123456789"), 1, n) :
                   first \in {"1", "5"}, n \in 0..MaxPhoneDigits}}
    \cup FAKE_NULLS
    \cup {S("+1-555-6983"), S("5556983"), S("(555) 123-4567"), S("555.123.4567"),
          S("ext"), NaN}

\* generate_messy_data.py
SHIPPING_COUNTRIES ==
    {S("US"), S("USA"), S("United States"), S("us"),
     S("CA"), S("Canada"), S("canada"),
     S("GB"), S("UK"), S("United Kingdom"),
     S("DE"), S("Germany"), S("germany"),
     S("FR"), S("France"),
     S("AU"), S("Australia")}

\* generate_messy_data.py
STATUS_VARIANTS ==
    {S("shipped"), S("Shipped"), S("SHIPPED"),
     S("delivered"), S("Delivered"), S("deliverred"),
     S("processing"), S("Processing"),
     S("cancelled"), S("Cancellled"),
     S("pending"), S("Pending")}

CountryInputs ==
    UNION {Paddings(v) \cup Paddings(upper(v)) \cup Paddings(lower(v)) :
        v \in SHIPPING_COUNTRIES \cup {S("Brazil"), S("U S"), S("Deutschland"), <<>>}}
    \cup {NaN}

StatusInputs ==
    UNION {Paddings(v) \cup Paddings(upper(v)) \cup Paddings(lower(v)) :
        v \in STATUS_VARIANTS \cup {S("refunded"), S("Canceled"), <<>>}}
    \cup {NaN}

MaxNameLen == 4

\* the characters of raw product names: a letter, a space, an accented letter,
\* the characters its UTF-8 bytes read as Latin-1 (once and twice over), a
\* no-break space and a character Latin-1 does not have
EncChars ==
    {"T", " ", "U+00FC", "U+00C3", "U+00BC", "U+0083", "U+00C2", "U+00A0", Euro}

EncInputs == Strs(EncChars, MaxNameLen) \cup {NaN}

\* raw emails and phones: every sentinel, other casings of it, near misses
\* and real values, each with and without surrounding spaces
NullInputs ==
    UNION {Paddings(v) \cup Paddings(upper(v)) \cup Paddings(lower(v)) :
        v \in FAKE_NULLS \cup {S("a@b"), S("n / a"), S("-1"), S("..."), S("nan"),
                               S("555-6983")}}
    \cup {NaN}

FirstYear == 2023

Years == FirstYear..(FirstYear + NumYears - 1)

\* how raw dates are written besides the generator's five formats: without
\* zero padding, and in formats the pipeline does not know
OTHER_DATE_TEMPLATES ==
    << <<"%-m", "/", "%-d", "/", "%Y">>,
       <<"%Y", "-", "%-m", "-", "%-d">>,
       <<"%-d", "-", "%-m", "-", "%Y">>,
       <<"%b", " ", "%-d", ",", " ", "%Y">>,
       <<"%-d", ".", "%-m", ".", "%Y">>,
       <<"%d", "/", "%m", "/", "%Y">>,
       <<"%m", "-", "%d", "-", "%Y">>,
       <<"%Y", "/", "%m", "/", "%d">>,
       <<"%m", "/", "%d", "/", "%y">>,
       <<"%d", " ", "%b", " ", "%Y">>,
       <<"%Y", "%m", "%d">> >>

\* what surrounds a raw date: nothing, spaces, quotes, quotes in quotes
Wrapped(w, s) ==
    CASE w = 1 -> s
      [] w = 2 -> S("  ") \o s \o S(" ")
      [] w = 3 -> S("\"") \o s \o S("\"")
      [] w = 4 -> S(" '") \o s \o S("' ")
      [] w = 5 -> S("\"'") \o s \o S("'\"")
      [] w = 6 -> S("'\"") \o s \o S("\"'")

\* the raw date a source renders: fields y, m, d (m = 13 and d = 0, 32 are
\* no calendar date) in the f-th format, wrapped the w-th way
RawDate(o) ==
    LET n == Len(GEN_DATE_FORMATS)
    IN  Wrapped(o.w, IF o.f <= n THEN messy_date(o.y, o.m, o.d, o.f)
                     ELSE Strftime(OTHER_DATE_TEMPLATES[o.f - n], o.y, o.m, o.d))

DateOrigins ==
    {o \in [y : Years, m : 1..13, d : 0..32,
            f : 1..(Len(GEN_DATE_FORMATS) + Len(OTHER_DATE_TEMPLATES)), w : 1..6] :
        o.m <= 12 \/ \A i \in 1..Len((GEN_DATE_FORMATS \o OTHER_DATE_TEMPLATES)[o.f]) :
                        (GEN_DATE_FORMATS \o OTHER_DATE_TEMPLATES)[o.f][i] # "%b"}

(***************************************************************************)
(* Function-level runs: one value through one column function              *)
(***************************************************************************)
NoTable == [columns |-> <<>>, rows |-> <<>>]

NoSchema == [before_rows |-> 0, before_columns |-> 0, before_nulls |-> 0,
             before_dups |-> 0, after_rows |-> 0, after_columns |-> 0,
             after_nulls |-> 0, after_dups |-> 0]

NoSummary == [empty_cols_dropped |-> 0, dups_removed_count |-> 0, duplicates |-> 0]

PipelineIdle ==
    /\ df_raw = NoTable /\ df = NoTable
    /\ before_shape = <<0, 0>> /\ before_dtypes = <<>> /\ before_nulls = 0
    /\ before_sample = NoTable /\ dups_removed = 0 /\ after_shape = <<0, 0>>
    /\ summary_data = NoSummary /\ schema_data = NoSchema
    /\ df_clean = NoTable /\ messy_samples = <<>> /\ clean_samples = <<>>
    /\ gen_df = NoTable

FnFrame == UNCHANGED <<fn, arg, origin>> /\ UNCHANGED pipeVars /\ UNCHANGED otherVars

InitFn(name, inputs) ==
    /\ PipelineIdle
    /\ pc = "fn_in" /\ fn = name /\ arg \in inputs
    /\ res = Unset /\ res2 = Unset /\ origin = NoOrigin

\* df["price"].apply(clean_price), one value of the column
CleanPriceStep ==
    /\ fn = "clean_price" /\ pc = "fn_in"
    /\ res' = clean_price(arg)
    /\ pc' = "fn_once"
    /\ UNCHANGED res2
    /\ FnFrame

\* df["order_date"].apply(parse_date), one value of the column
ParseDateStep ==
    /\ fn = "parse_date" /\ pc = "fn_in"
    /\ res' = parse_date(arg)
    /\ pc' = "fn_once"
    /\ UNCHANGED res2
    /\ FnFrame

\* df["sku"].apply(clean_sku), one value of the column
CleanSkuStep ==
    /\ fn = "clean_sku" /\ pc = "fn_in"
    /\ res' = clean_sku(arg)
    /\ pc' = "fn_once"
    /\ UNCHANGED res2
    /\ FnFrame

\* the same cell run a second time, on the column it has cleaned
CleanSkuAgain ==
    /\ fn = "clean_sku" /\ pc = "fn_once"
    /\ res2' = clean_sku(res)
    /\ pc' = "fn_twice"
    /\ UNCHANGED res
    /\ FnFrame

CleanPhoneStep ==
    /\ fn = "clean_phone" /\ pc = "fn_in"
    /\ res' = clean_phone(arg)
    /\ pc' = "fn_once"
    /\ UNCHANGED res2
    /\ FnFrame

CleanPhoneAgain ==
    /\ fn = "clean_phone" /\ pc = "fn_once"
    /\ res2' = clean_phone(res)
    /\ pc' = "fn_twice"
    /\ UNCHANGED res
    /\ FnFrame

CleanCountryStep ==
    /\ fn = "clean_country" /\ pc = "fn_in"
    /\ res' = clean_country(arg)
    /\ pc' = "fn_once"
    /\ UNCHANGED res2
    /\ FnFrame

CleanCountryAgain ==
    /\ fn = "clean_country" /\ pc = "fn_once"
    /\ res2' = clean_country(res)
    /\ pc' = "fn_twice"
    /\ UNCHANGED res
    /\ FnFrame

CleanStatusStep ==
    /\ fn = "clean_status" /\ pc = "fn_in"
    /\ res' = clean_status(arg)
    /\ pc' = "fn_once"
    /\ UNCHANGED res2
    /\ FnFrame

CleanStatusAgain ==
    /\ fn = "clean_status" /\ pc = "fn_once"
    /\ res2' = clean_status(res)
    /\ pc' = "fn_twice"
    /\ UNCHANGED res
    /\ FnFrame

\* df["product_name"].apply(fix_encoding), one value of the column
FixEncodingStep ==
    /\ fn = "fix_encoding" /\ pc = "fn_in"
    /\ res' = fix_encoding(arg)
    /\ pc' = "fn_once"
    /\ UNCHANGED res2
    /\ FnFrame

FixEncodingAgain ==
    /\ fn = "fix_encoding" /\ pc = "fn_once"
    /\ res2' = fix_encoding(res)
    /\ pc' = "fn_twice"
    /\ UNCHANGED res
    /\ FnFrame

InitPrice == InitFn("clean_price", PriceInputs)

NextPrice == CleanPriceStep

SpecPrice == InitPrice /\ [][NextPrice]_vars

InitEnc == InitFn("fix_encoding", EncInputs)

NextEnc == FixEncodingStep \/ FixEncodingAgain

SpecEnc == InitEnc /\ [][NextEnc]_vars

InitDate ==
    /\ PipelineIdle
    /\ pc = "fn_in" /\ fn = "parse_date"
    /\ res = Unset /\ res2 = Unset
    /\ \/ \E o \in DateOrigins : origin = o /\ arg = RawDate(o)
       \/ origin = NoOrigin /\ arg \in {NaN, <<>>, S("\"\""), S("yesterday")}

NextDate == ParseDateStep

SpecDate == InitDate /\ [][NextDate]_vars

InitNorm ==
    \/ InitFn("clean_sku", SkuInputs)
    \/ InitFn("clean_phone", PhoneInputs)
    \/ InitFn("clean_country", CountryInputs)
    \/ InitFn("clean_status", StatusInputs)

NextNorm ==
    \/ CleanSkuStep \/ CleanSkuAgain
    \/ CleanPhoneStep \/ CleanPhoneAgain
    \/ CleanCountryStep \/ CleanCountryAgain
    \/ CleanStatusStep \/ CleanStatusAgain

SpecNorm == InitNorm /\ [][NextNorm]_vars

(***************************************************************************)
(* Tables. A DataFrame is its column names in order and its rows in order, *)
(* a row a function from the column names to values.                       *)
(***************************************************************************)
\* generate_messy_data.py: the columns of the export
COLUMNS ==
    <<"order_id", "sku", "product_name", "order_date", "price", "quantity",
      "customer_email", "customer_phone", "shipping_country", "status",
      "_unnamed_1", "_unnamed_2", "notes">>

ColumnSet(t) == {t.columns[i] : i \in 1..Len(t.columns)}

\* df.shape
Shape(t) == <<Len(t.rows), Len(t.columns)>>

\* df[col].isnull().sum()
ColumnNulls(t, col) == Cardinality({i \in 1..Len(t.rows) : isna(t.rows[i][col])})

\* df.isnull().sum().sum()
NullCount(t) ==
    Cardinality({rc \in (1..Len(t.rows)) \X ColumnSet(t) : isna(t.rows[rc[1]][rc[2]])})

\* df.head(n)
head(t, n) ==
    [t EXCEPT !.rows = SubSeq(t.rows, 1, IF Len(t.rows) < n THEN Len(t.rows) ELSE n)]

\* df.drop(columns=cs)
drop_columns(t, cs) ==
    [columns |-> SelectSeq(t.columns, LAMBDA c : c \notin cs),
     rows |-> [i \in 1..Len(t.rows) |-> [c \in ColumnSet(t) \ cs |-> t.rows[i][c]]]]

RECURSIVE KeepFirst(_, _)
\* the rows not equal to an earlier row, in order; NaN equals NaN
KeepFirst(rows, kept) ==
    IF rows = <<>> THEN kept
    ELSE IF \E i \in 1..Len(kept) : kept[i] = Head(rows)
         THEN KeepFirst(Tail(rows), kept)
         ELSE KeepFirst(Tail(rows), Append(kept, Head(rows)))

\* df[mask]: the rows at the kept positions, in their order
take(rows, keep) ==
    LET rank(i) == Cardinality({j \in keep : j <= i})
    IN  [k \in 1..Cardinality(keep) |-> rows[CHOOSE i \in keep : rank(i) = k]]

\* a slip: a row is dropped only when it equals the row right before it
drop_duplicates_adjacent(t) ==
    [t EXCEPT !.rows =
        take(t.rows, {i \in 1..Len(t.rows) : ~(i > 1 /\ t.rows[i] = t.rows[i - 1])})]

\* a slip: nothing is dropped
drop_duplicates_keeps_all(t) == t

\* df.drop_duplicates() with reset_index(drop=True); an empty frame (no rows
\* or no columns) is returned as it is
drop_duplicates(t) ==
    IF t.rows = <<>> \/ t.columns = <<>> THEN t
    ELSE [t EXCEPT !.rows = KeepFirst(t.rows, <<>>)]

\* df.duplicated().sum()
duplicated_sum(t) == Len(t.rows) - Len(KeepFirst(t.rows, <<>>))

\* df[col] = values, a Series aligned with the rows
assign(t, col, values) ==
    [t EXCEPT !.rows = [i \in 1..Len(t.rows) |-> [t.rows[i] EXCEPT ![col] = values[i]]]]

\* df[col]
Column(t, col) == [i \in 1..Len(t.rows) |-> t.rows[i][col]]

(***************************************************************************)
(* pd.read_csv: the table a CSV file of text cells is read as              *)
(***************************************************************************)
\* the cells read_csv takes for missing
NA_VALUES ==
    {<<>>, S("#N/A"), S("#N/A N/A"), S("#NA"), S("-1.#IND"), S("-1.#QNAN"),
     S("-NaN"), S("-nan"), S("1.#IND"), S("1.#QNAN"), S("<NA>"), S("N/A"),
     S("NA"), S("NULL"), S("NaN"), S("None"), S("n/a"), S("nan"), S("null")}

IsIntNumeral(s) == s # <<>> /\ AllDigits(s)

IsNumeral(s) == PyFloat(s).ok /\ \A i \in 1..Len(s) : s[i] \in Digits \cup {"."}

\* str() of the int a numeral writes
IntRepr(s) ==
    LET z == lstrip(s, {"0"}) IN IF z = <<>> THEN S("0") ELSE z

\* str() of the float a numeral writes
NumeralRepr(s) ==
    LET f == PyFloat(s)
        fp == rstrip(f.fp, {"0"})
    IN  IntRepr(f.ip) \o S(".") \o (IF fp = <<>> THEN S("0") ELSE fp)

\* the dtype read_csv infers for a column of text cells
InferredDtype(cells) ==
    LET present == {i \in 1..Len(cells) : cells[i] \notin NA_VALUES}
    IN  IF Len(cells) = 0 THEN "object"
        ELSE IF present = {} THEN "float64"
        ELSE IF present = 1..Len(cells) /\ \A i \in present : IsIntNumeral(cells[i])
             THEN "int64"
        ELSE IF \A i \in present : IsNumeral(cells[i]) THEN "float64"
        ELSE "object"

read_csv(file) ==
    LET dtype(c) == InferredDtype([i \in 1..Len(file.rows) |-> file.rows[i][c]])
        value(c, cell) ==
            IF cell \in NA_VALUES THEN NaN
            ELSE IF dtype(c) = "int64" THEN IntRepr(cell)
            ELSE IF dtype(c) = "float64" THEN NumeralRepr(cell)
            ELSE cell
    IN  [columns |-> file.columns,
         rows |-> [i \in 1..Len(file.rows) |->
                      [c \in ColumnSet(file) |-> value(c, file.rows[i][c])]]]

\* df.dtypes of a table as read_csv returned it
dtype_of(t, col) ==
    IF Len(t.rows) = 0 THEN "object"
    ELSE IF \A i \in 1..Len(t.rows) : isna(t.rows[i][col]) THEN "float64"
    ELSE IF \A i \in 1..Len(t.rows) : ~isna(t.rows[i][col]) /\ IsIntNumeral(t.rows[i][col])
         THEN "int64"
    ELSE IF \A i \in 1..Len(t.rows) : isna(t.rows[i][col]) \/ IsNumeral(t.rows[i][col])
         THEN "float64"
    ELSE "object"

dtypes(t) == [c \in ColumnSet(t) |-> dtype_of(t, c)]

(***************************************************************************)
(* The CSV files of the model: up to MaxRows rows, each the row BaseRow    *)
(* with at most one cell written another way.                              *)
(***************************************************************************)
MaxRows == 2

BaseRow ==
    "order_id" :> S("O1") @@ "sku" :> S("SKU-1")
    @@ "product_name" :> <<"T", "U+00FC">>
    @@ "order_date" :> S("03/04/2023") @@ "price" :> S("$45.00")
    @@ "quantity" :> S("5") @@ "customer_email" :> S("a@b")
    @@ "customer_phone" :> S("(555) 123-4567")
    @@ "shipping_country" :> S("US") @@ "status" :> S("shipped")
    @@ "_unnamed_1" :> <<>> @@ "_unnamed_2" :> <<>> @@ "notes" :> <<>>

CellVariants ==
    "order_id" :> {S("O2")}
    @@ "sku" :> {S("sku1"), S("AB1"), <<>>}
    @@ "product_name" :> {<<"T", "U+00C3", "U+00BC">>, <<>>}
    @@ "order_date" :> {S("2023-03-04"), S("soon"), <<>>}
    @@ "price" :> {S("45.0"), <<Pound>> \o S("45.00"), <<>>}
    @@ "quantity" :> {S("5.0")}
    @@ "customer_email" :> {S("-"), S("N/A"), S(" na ")}
    @@ "customer_phone" :> {S("5551234567"), S("12345"), S("--"), <<>>}
    @@ "shipping_country" :> {S("usa"), S("Brazil"), <<>>}
    @@ "status" :> {S("Shipped"), S("deliverred"), <<>>}
    @@ "_unnamed_1" :> {}
    @@ "_unnamed_2" :> {}
    @@ "notes" :> {S("gift")}

CsvRows ==
    {BaseRow} \cup UNION {{[BaseRow EXCEPT ![c] = v] : v \in CellVariants[c]} :
                              c \in DOMAIN CellVariants}

(***************************************************************************)
(* The notebook, cell by cell (Spec). A cell that raises stops the run.    *)
(***************************************************************************)
SAMPLE_ROWS == 6

\* longer files, of rows that are each other's copy or nearly so
MaxRepeatedRows == 3

RepeatedRows ==
    {BaseRow, [BaseRow EXCEPT !["order_id"] = S("O2")], [BaseRow EXCEPT !["sku"] = S("sku1")]}

CsvFiles ==
    {[columns |-> COLUMNS, rows |-> r] :
        r \in UNION {[1..n -> CsvRows] : n \in 0..MaxRows}
              \cup UNION {[1..n -> RepeatedRows] : n \in (MaxRows + 1)..MaxRepeatedRows}}

Init ==
    /\ pc = "snapshot"
    /\ df_raw \in {read_csv(file) : file \in CsvFiles}
    /\ df = NoTable
    /\ before_shape = <<0, 0>> /\ before_dtypes = <<>> /\ before_nulls = 0
    /\ before_sample = NoTable /\ dups_removed = 0 /\ after_shape = <<0, 0>>
    /\ summary_data = NoSummary /\ schema_data = NoSchema
    /\ df_clean = NoTable /\ messy_samples = <<>> /\ clean_samples = <<>>
    /\ gen_df = NoTable
    /\ fn = "none" /\ arg = Unset /\ res = Unset /\ res2 = Unset
    /\ origin = NoOrigin

Snapshot ==
    /\ pc = "snapshot"
    /\ before_shape' = Shape(df_raw)
    /\ before_dtypes' = dtypes(df_raw)
    /\ before_nulls' = NullCount(df_raw)
    /\ before_sample' = head(df_raw, SAMPLE_ROWS)
    /\ df' = df_raw
    /\ pc' = "step1"
    /\ UNCHANGED <<df_raw, dups_removed, after_shape, summary_data, schema_data>>
    /\ UNCHANGED otherVars
    /\ UNCHANGED fnVars

\* what every cleaning step leaves alone besides df and pc
StepFrame ==
    /\ UNCHANGED <<df_raw, before_shape, before_dtypes, before_sample,
                   after_shape, summary_data, schema_data>>
    /\ UNCHANGED otherVars
    /\ UNCHANGED fnVars

\* a slip: a column of null-sentinel strings counts as empty as well
Step1_DropsSentinelColumns ==
    /\ pc = "step1"
    /\ LET empty_cols == {col \in ColumnSet(df) :
                             \A i \in 1..Len(df.rows) : isna(coerce_null(df.rows[i][col]))}
       IN  df' = drop_columns(df, empty_cols)
    /\ pc' = "step2"
    /\ UNCHANGED <<before_nulls, dups_removed>>
    /\ StepFrame

Step1_DropEmptyColumns ==
    /\ pc = "step1"
    /\ LET empty_cols == {col \in ColumnSet(df) :
                             \A i \in 1..Len(df.rows) : isna(df.rows[i][col])}
       IN  df' = drop_columns(df, empty_cols)
    /\ pc' = "step2"
    /\ UNCHANGED <<before_nulls, dups_removed>>
    /\ StepFrame

\* a slip: step 2 keeps one row per order identifier
Step2_DropsRepeatedOrderIds ==
    /\ pc = "step2"
    /\ df' = [df EXCEPT !.rows =
                 take(df.rows, {i \in 1..Len(df.rows) :
                                   \A j \in 1..(i - 1) :
                                       df.rows[j]["order_id"] # df.rows[i]["order_id"]})]
    /\ dups_removed' = Len(df.rows) - Len(df'.rows)
    /\ pc' = "step3"
    /\ UNCHANGED before_nulls
    /\ StepFrame

Step2_RemoveDuplicates ==
    /\ pc = "step2"
    /\ df' = drop_duplicates(df)
    /\ dups_removed' = Len(df.rows) - Len(df'.rows)
    /\ pc' = "step3"
    /\ UNCHANGED before_nulls
    /\ StepFrame

\* df[col] raises KeyError when the column is not in df
Step3_StandardizeDates ==
    /\ pc = "step3"
    /\ IF "order_date" \in ColumnSet(df)
       THEN /\ df' = assign(df, "order_date", [i \in 1..Len(df.rows) |->
                                  parse_date(df.rows[i]["order_date"])])
            /\ pc' = "step4"
       ELSE df' = df /\ pc' = "crashed"
    /\ UNCHANGED <<before_nulls, dups_removed>>
    /\ StepFrame

Step4_NormalizePrices ==
    /\ pc = "step4"
    /\ IF "price" \in ColumnSet(df)
       THEN /\ df' = assign(df, "price", [i \in 1..Len(df.rows) |->
                                  clean_price(df.rows[i]["price"])])
            /\ pc' = "step5"
       ELSE df' = df /\ pc' = "crashed"
    /\ UNCHANGED <<before_nulls, dups_removed>>
    /\ StepFrame

\* after the apply the cell prints sorted(df['sku'].unique()): TypeError when
\* the unique values hold NaN next to a string
Step5_StandardizeSkus ==
    /\ pc = "step5"
    /\ IF "sku" \notin ColumnSet(df)
       THEN df' = df /\ pc' = "crashed"
       ELSE /\ df' = assign(df, "sku", [i \in 1..Len(df.rows) |->
                                  clean_sku(df.rows[i]["sku"])])
            /\ LET unique == {df'.rows[i]["sku"] : i \in 1..Len(df'.rows)}
               IN  pc' = IF NaN \in unique /\ unique # {NaN} THEN "crashed" ELSE "step6"
    /\ UNCHANGED <<before_nulls, dups_removed>>
    /\ StepFrame

\* the loop over customer_email, customer_phone assigns before_nulls
Step6_NormalizeMissingValues ==
    /\ pc = "step6"
    /\ IF "customer_email" \notin ColumnSet(df)
       THEN df' = df /\ before_nulls' = before_nulls /\ pc' = "crashed"
       ELSE LET df1 == assign(df, "customer_email", [i \in 1..Len(df.rows) |->
                                  coerce_null(df.rows[i]["customer_email"])])
            IN  IF "customer_phone" \notin ColumnSet(df)
                THEN /\ df' = df1
                     /\ before_nulls' = ColumnNulls(df, "customer_email")
                     /\ pc' = "crashed"
                ELSE /\ df' = assign(df1, "customer_phone", [i \in 1..Len(df1.rows) |->
                                      coerce_null(df1.rows[i]["customer_phone"])])
                     /\ before_nulls' = ColumnNulls(df1, "customer_phone")
                     /\ pc' = "step7"
    /\ UNCHANGED dups_removed
    /\ StepFrame

Step7_FixEncoding ==
    /\ pc = "step7"
    /\ IF "product_name" \in ColumnSet(df)
       THEN /\ df' = assign(df, "product_name", [i \in 1..Len(df.rows) |->
                                  fix_encoding(df.rows[i]["product_name"])])
            /\ pc' = "step8"
       ELSE df' = df /\ pc' = "crashed"
    /\ UNCHANGED <<before_nulls, dups_removed>>
    /\ StepFrame

Step8_StandardizePhones ==
    /\ pc = "step8"
    /\ IF "customer_phone" \in ColumnSet(df)
       THEN /\ df' = assign(df, "customer_phone", [i \in 1..Len(df.rows) |->
                                  clean_phone(df.rows[i]["customer_phone"])])
            /\ pc' = "step9"
       ELSE df' = df /\ pc' = "crashed"
    /\ UNCHANGED <<before_nulls, dups_removed>>
    /\ StepFrame

Step9_NormalizeCountries ==
    /\ pc = "step9"
    /\ IF "shipping_country" \in ColumnSet(df)
       THEN /\ df' = assign(df, "shipping_country", [i \in 1..Len(df.rows) |->
                                  clean_country(df.rows[i]["shipping_country"])])
            /\ pc' = "step10"
       ELSE df' = df /\ pc' = "crashed"
    /\ UNCHANGED <<before_nulls, dups_removed>>
    /\ StepFrame

\* a slip: step 10 also drops the rows whose status is absent
Step10_DropsAbsentStatus ==
    /\ pc = "step10"
    /\ IF "status" \in ColumnSet(df)
       THEN /\ LET kept == [df EXCEPT !.rows =
                               take(df.rows, {i \in 1..Len(df.rows) :
                                                 ~isna(df.rows[i]["status"])})]
               IN  df' = assign(kept, "status", [i \in 1..Len(kept.rows) |->
                                  clean_status(kept.rows[i]["status"])])
            /\ pc' = "summary"
       ELSE df' = df /\ pc' = "crashed"
    /\ UNCHANGED <<before_nulls, dups_removed>>
    /\ StepFrame

Step10_FixStatusTypos ==
    /\ pc = "step10"
    /\ IF "status" \in ColumnSet(df)
       THEN /\ df' = assign(df, "status", [i \in 1..Len(df.rows) |->
                                  clean_status(df.rows[i]["status"])])
            /\ pc' = "summary"
       ELSE df' = df /\ pc' = "crashed"
    /\ UNCHANGED <<before_nulls, dups_removed>>
    /\ StepFrame

CleaningSummary ==
    /\ pc = "summary"
    /\ after_shape' = Shape(df)
    /\ summary_data' =
          [empty_cols_dropped |-> before_shape[2] - Shape(df)[2],
           dups_removed_count |-> before_shape[1] - Len(df.rows),
           duplicates |-> before_shape[1] - Len(drop_duplicates(df_raw).rows)]
    /\ pc' = "schema"
    /\ UNCHANGED <<df_raw, df, before_shape, before_dtypes, before_nulls,
                   before_sample, dups_removed, schema_data>>
    /\ UNCHANGED otherVars
    /\ UNCHANGED fnVars

SchemaComparison ==
    /\ pc = "schema"
    /\ schema_data' =
          [before_rows |-> before_shape[1],
           before_columns |-> before_shape[2],
           before_nulls |-> before_nulls,
           before_dups |-> duplicated_sum(df_raw),
           after_rows |-> after_shape[1],
           after_columns |-> after_shape[2],
           after_nulls |-> NullCount(df),
           after_dups |-> duplicated_sum(df)]
    /\ pc' = "done"
    /\ UNCHANGED <<df_raw, df, before_shape, before_dtypes, before_nulls,
                   before_sample, dups_removed, after_shape, summary_data>>
    /\ UNCHANGED otherVars
    /\ UNCHANGED fnVars

Next ==
    \/ Snapshot
    \/ Step1_DropEmptyColumns
    \/ Step2_RemoveDuplicates
    \/ Step3_StandardizeDates
    \/ Step4_NormalizePrices
    \/ Step5_StandardizeSkus
    \/ Step6_NormalizeMissingValues
    \/ Step7_FixEncoding
    \/ Step8_StandardizePhones
    \/ Step9_NormalizeCountries
    \/ Step10_FixStatusTypos
    \/ CleaningSummary
    \/ SchemaComparison

Spec == Init /\ [][Next]_vars

(***************************************************************************)
(* Step 6 looked at twice: in the notebook run and one value at a time     *)
(***************************************************************************)
\* df[col].apply(coerce_null), one value of the column
CoerceNullStep ==
    /\ fn = "coerce_null" /\ pc = "fn_in"
    /\ res' = coerce_null(arg)
    /\ pc' = "fn_once"
    /\ UNCHANGED res2
    /\ FnFrame

InitNull == Init \/ InitFn("coerce_null", NullInputs)

NextNull == Next \/ CoerceNullStep

SpecNull == InitNull /\ [][NextNull]_vars

\* the working table has been through all ten steps
Cleaned == pc \in {"summary", "schema", "done"}

(***************************************************************************)
(* The cleaned table (Spec)                                                *)
(***************************************************************************)
\* C1: in the final cleaned table no two records compare fully equal, absent
\* markers comparing equal to each other.
C1_NoDuplicateRecords ==
    Cleaned =>
        \A i, j \in 1..Len(df.rows) : i # j => df.rows[i] # df.rows[j]

\* C2: in the final cleaned table every column has at least one non-absent
\* value.
C2_NoEmptyColumn ==
    Cleaned =>
        \A col \in ColumnSet(df) : \E i \in 1..Len(df.rows) : ~isna(df.rows[i][col])

\* C3: once the snapshot is taken the retained values (shape, dtype map,
\* first-rows sample, total null-cell count) stay those of the raw table, and
\* the "Total null cells" Before figure of the schema comparison is the number
\* of absent cells of the raw table.
C3_SnapshotRetained ==
    /\ pc # "snapshot" =>
          /\ before_shape = Shape(df_raw)
          /\ before_dtypes = dtypes(df_raw)
          /\ before_sample = head(df_raw, SAMPLE_ROWS)
          /\ before_nulls = NullCount(df_raw)
    /\ pc = "done" => schema_data.before_nulls = NullCount(df_raw)

\* 'SKU-' followed by digits, nothing lowercase
IsSkuForm(v) ==
    /\ startswith(v, S("SKU-"))
    /\ Len(v) > 4
    /\ \A i \in 5..Len(v) : v[i] \in Digits

\* C4: every non-absent SKU of the final cleaned table is uppercase and has
\* the form 'SKU-' followed by digits.
C4_SkuForm ==
    Cleaned /\ "sku" \in ColumnSet(df) =>
        \A i \in 1..Len(df.rows) : isna(df.rows[i]["sku"]) \/ IsSkuForm(df.rows[i]["sku"])

\* the codes the country mapping maps to
ISO_CODES == {COUNTRY_MAP[k] : k \in DOMAIN COUNTRY_MAP}

IsPlainAmount(a) == PyFloat(a).ok /\ \A i \in 1..Len(a) : a[i] \in Digits \cup {"."}

\* the amount a carrying one of the currency markers the specification names
MarkedAmounts(a) ==
    {S("$") \o a, S("USD ") \o a, a \o S(" TL"), <<Euro>> \o a, <<Pound>> \o a}

\* C6: a well-formed amount carrying any one of the markers $, USD, TL, the
\* euro sign or the pound sign is normalized to that amount, not to absent.
C6_EveryMarkerStripped ==
    (pc = "fn_once" /\ fn = "clean_price") =>
        \A a \in Strs({"1", "5", "."}, MaxPriceLen) \cup {S("45.00")} :
            (IsPlainAmount(a) /\ arg \in MarkedAmounts(a)) =>
                res = FloatRepr(Round2(PyFloat(a)))

\* the decimal point of the claim: the later-occurring of ',' and '.', and
\* ',' when it occurs alone
ClaimedDecimalPoint(t) ==
    IF contains(t, ",") /\ (~contains(t, ".") \/ rfind(t, ",") > rfind(t, "."))
    THEN "," ELSE "."

\* t with its decimal point written '.' and every other separator removed
ClaimedNumeral(t) ==
    LET dp == ClaimedDecimalPoint(t)
        kept == SelectSeq(t, LAMBDA c : c \notin {",", "."} \/ c = dp)
    IN  [i \in 1..Len(kept) |-> IF kept[i] = dp THEN "." ELSE kept[i]]

\* the hundredths a float repr with one or two decimals writes
HundredthsOf(r) ==
    LET f == PyFloat(r)
    IN  100 * NumVal(f.ip) + NumVal(SubSeq(f.fp \o <<"0">>, 1, 2))

RECURSIVE Pow10(_)
Pow10(k) == IF k = 0 THEN 1 ELSE 10 * Pow10(k - 1)

\* r is the repr of a hundredth nearest to the number f writes
IsNearestHundredth(f, r) ==
    LET k == IF Len(f.fp) > 2 THEN Len(f.fp) ELSE 2
        exact == NumVal(f.ip \o f.fp) * Pow10(k - Len(f.fp))
        diff == exact - HundredthsOf(r) * Pow10(k - 2)
    IN  /\ r # NaN
        /\ r = FloatRepr(HundredthsOf(r))
        /\ 2 * diff <= Pow10(k - 2) /\ 2 * diff >= 0 - Pow10(k - 2)

\* C7: after the currency markers are stripped, the later-occurring of ','
\* and '.' is the decimal point and the other separator is removed, a lone
\* ',' is the decimal point, the number is rounded to 2 decimals, and an
\* absent or unparsable input gives absent.
C7_PriceRule ==
    (pc = "fn_once" /\ fn = "clean_price") =>
        /\ isna(arg) => res = NaN
        /\ ~isna(arg) =>
              LET f == PyFloat(ClaimedNumeral(strip_currency(strip(arg))))
              IN  IF f.ok THEN IsNearestHundredth(f, res) ELSE res = NaN
        /\ arg = <<Euro>> \o S("1.234,56") => res = S("1234.56")
        /\ arg = S("19,99") => res = S("19.99")
        /\ arg = S("$45.00") => res = S("45.0")

C7_Witness ==
    /\ pc = "fn_once" /\ fn = "clean_price"
    /\ arg = <<Euro>> \o S("1.234,56") /\ res = S("1234.56")

(***************************************************************************)
(* Idempotence (SpecNorm)                                                  *)
(***************************************************************************)
\* C10: SKU, phone, country and status normalization applied twice give what
\* one application gives, for every input value including absent.
C10_Idempotent == pc = "fn_twice" => res2 = res

C10_Witness ==
    /\ pc = "fn_twice" /\ fn = "clean_sku"
    /\ arg = S("sku001") /\ res = S("SKU-001") /\ res2 = S("SKU-001")

(***************************************************************************)
(* Date normalization (SpecDate)                                           *)
(***************************************************************************)
\* the formats of the claim, in its order: MM/DD/YYYY, YYYY-MM-DD,
\* DD-MM-YYYY, "Mon DD, YYYY", DD.MM.YYYY
ClaimedDateFormats ==
    << <<"%m", "/", "%d", "/", "%Y">>,
       <<"%Y", "-", "%m", "-", "%d">>,
       <<"%d", "-", "%m", "-", "%Y">>,
       <<"%b", " ", "%d", ",", " ", "%Y">>,
       <<"%d", ".", "%m", ".", "%Y">> >>

\* the date y-m-d written YYYY-MM-DD
IsoString(y, m, d) == Pad(y, 4) \o S("-") \o Pad(m, 2) \o S("-") \o Pad(d, 2)

IsIsoShaped(r) ==
    /\ Len(r) = 10
    /\ r[5] = "-" /\ r[8] = "-"
    /\ \A i \in {1, 2, 3, 4, 6, 7, 9, 10} : r[i] \in Digits

\* C8: whitespace and quotes around the value are stripped, the five formats
\* are tried in the claim's order and the first that parses the whole string
\* gives the result, written YYYY-MM-DD; if none parses, or the input is
\* absent, the result is absent. So a result is absent or YYYY-MM-DD.
C8_DateRule ==
    (pc = "fn_once" /\ fn = "parse_date") =>
        /\ isna(arg) => res = NaN
        /\ ~isna(arg) =>
              LET v == stripChars(stripChars(strip(arg), {"\""}), {"'"})
                  parses(i) == to_datetime(v, ClaimedDateFormats[i]).ok
              IN  IF \E i \in 1..5 : parses(i)
                  THEN LET first == CHOOSE i \in 1..5 :
                                        parses(i) /\ \A j \in 1..(i - 1) : ~parses(j)
                           r == to_datetime(v, ClaimedDateFormats[first])
                       IN  res = IsoString(r.y, r.m, r.d)
                  ELSE res = NaN
        /\ res = NaN \/ IsIsoShaped(res)

C8_Witness ==
    /\ pc = "fn_once" /\ fn = "parse_date"
    /\ arg = S("\"04.03.2023\"") /\ res = S("2023-03-04")

C11_RepairIdempotent ==
    fn = "fix_encoding" /\ pc = "fn_twice" => res2 = res

\* the texts whose UTF-8 bytes, read as Latin-1, are raw names of the model
DecodedTexts ==
    Strs({"T", " ", "U+00FC", "U+00C3", "U+00E0", "U+00BC", "U+0083", "U+00A0"},
         MaxNameLen)

\* the byte strings that are the UTF-8 encoding of a text
Utf8Encodings == {encode_utf8(x) : x \in DecodedTexts}

DigitsOf(v) == SelectSeq(v, LAMBDA c : c \in Digits)

\* XXX-XXX-XXXX of ten digits
TenDigitForm(d) ==
    SubSeq(d, 1, 3) \o S("-") \o SubSeq(d, 4, 6) \o S("-") \o SubSeq(d, 7, 10)

\* the phone the rules of the claim give
ClaimedPhone(v) ==
    IF isna(v) THEN NaN
    ELSE LET d == DigitsOf(v)
         IN  CASE Len(d) = 7 -> TenDigitForm(S("555") \o d)
               [] Len(d) = 8 /\ d[1] = "1" -> TenDigitForm(S("555") \o Tail(d))
               [] Len(d) = 10 -> TenDigitForm(d)
               [] Len(d) = 11 /\ d[1] = "1" -> TenDigitForm(Tail(d))
               [] OTHER -> NaN

\* C12: phone normalization keeps only the digits and decides by their count:
\* 7 digits get the area code 555, 8 digits starting with 1 lose the 1 and
\* follow the 7-digit rule, 10 digits are written XXX-XXX-XXXX, 11 digits
\* starting with 1 lose the 1 and follow the 10-digit rule, everything else
\* (absent included) is absent; '+1-555-6983' gives '555-555-6983'.
C12_PhoneRule ==
    fn = "clean_phone" /\ pc # "fn_in" =>
        /\ res = ClaimedPhone(arg)
        /\ arg = S("+1-555-6983") => res = S("555-555-6983")

C12_Witness ==
    /\ fn = "clean_phone" /\ pc = "fn_once"
    /\ arg = S("+1-555-6983") /\ res = S("555-555-6983")

\* u with '-' put after its prefix 'SKU' when another character follows it
WithDash(u) ==
    IF Len(u) >= 4 /\ SubSeq(u, 1, 3) = S("SKU") /\ u[4] # "-"
    THEN S("SKU-") \o SubSeq(u, 4, Len(u))
    ELSE u

\* the three examples of the SKU rule
SkuExamples ==
    /\ arg = S("sku001") => res = S("SKU-001")
    /\ arg = S("Sku-010") => res = S("SKU-010")
    /\ arg = S("SKU-003") => res = S("SKU-003")

\* C13 as stated: SKU normalization uppercases the whole value and inserts '-'
\* after a prefix 'SKU' that another character follows; every other value is
\* only uppercased.
C13_SkuRuleAsStated ==
    fn = "clean_sku" /\ pc # "fn_in" =>
        /\ res = IF isna(arg) THEN NaN ELSE WithDash(upper(arg))
        /\ SkuExamples

\* C13, amended: SKU normalization trims surrounding whitespace, uppercases the
\* value and inserts '-' after a prefix 'SKU' that another character follows;
\* every other value is only trimmed and uppercased; absent stays absent.
C13_SkuRule ==
    fn = "clean_sku" /\ pc # "fn_in" =>
        /\ res = IF isna(arg) THEN NaN ELSE WithDash(upper(strip(arg)))
        /\ SkuExamples

\* a padded value that gets its dash
C13_Witness ==
    /\ fn = "clean_sku" /\ pc = "fn_once"
    /\ arg = S(" sku1 ") /\ res = S("SKU-1")

\* the names the country table knows, lowercase, by the code they stand for
NAMES_BY_CODE ==
    S("US") :> {S("us"), S("usa"), S("united states")}
    @@ S("CA") :> {S("ca"), S("canada")}
    @@ S("GB") :> {S("gb"), S("uk"), S("united kingdom")}
    @@ S("DE") :> {S("de"), S("germany")}
    @@ S("FR") :> {S("fr"), S("france")}
    @@ S("AU") :> {S("au"), S("australia")}

\* C14: country normalization looks the trimmed, lowercased value up in the
\* fixed table and returns the mapped code; a non-absent value with no entry
\* is returned exactly as it was given; 'United Kingdom' gives 'GB', 'Germany'
\* gives 'DE' and 'Brazil' stays 'Brazil'.
C14_CountryRule ==
    fn = "clean_country" /\ pc # "fn_in" =>
        /\ isna(arg) => isna(res)
        /\ ~isna(arg) =>
              LET key == lower(strip(arg))
              IN  /\ \A code \in DOMAIN NAMES_BY_CODE :
                        key \in NAMES_BY_CODE[code] => res = code
                  /\ (\A code \in DOMAIN NAMES_BY_CODE : key \notin NAMES_BY_CODE[code])
                        => res = arg
        /\ arg = S("United Kingdom") => res = S("GB")
        /\ arg = S("Germany") => res = S("DE")
        /\ arg = S("Brazil") => res = S("Brazil")

\* an unmapped value with surrounding whitespace, returned as given
C14_Witness ==
    /\ fn = "clean_country" /\ pc = "fn_once"
    /\ arg = S(" Brazil ") /\ res = S(" Brazil ")

\* the misspellings the typo map corrects
Misspellings == {S("deliverred"), S("cancellled")}

\* C15: status normalization returns the typo map applied to the trimmed,
\* lowercased value (an unmapped value passes through lowercased), so a
\* non-absent result is lowercase and is none of the misspellings; 'Cancellled'
\* gives 'cancelled' and 'DELIVERRED' gives 'delivered'.
C15_StatusRule ==
    fn = "clean_status" /\ pc # "fn_in" =>
        /\ isna(arg) => isna(res)
        /\ ~isna(arg) =>
              LET s == lower(strip(arg))
              IN  /\ res = IF s = S("deliverred") THEN S("delivered")
                           ELSE IF s = S("cancellled") THEN S("cancelled")
                           ELSE s
                  /\ \A i \in 1..Len(res) : res[i] \notin {UpperCase[k] : k \in 1..Len(UpperCase)}
                  /\ res \notin Misspellings
        /\ arg = S("Cancellled") => res = S("cancelled")
        /\ arg = S("DELIVERRED") => res = S("delivered")

C15_Witness ==
    /\ fn = "clean_status" /\ pc = "fn_once"
    /\ arg = S("DELIVERRED") /\ res = S("delivered")

(***************************************************************************)
(* Deduplication, pruning and null coercion, step by step (Spec)           *)
(***************************************************************************)
\* the indexes of the rows that no earlier row equals
FirstIndexes(rows) ==
    {i \in 1..Len(rows) : \A j \in 1..(i - 1) : rows[j] # rows[i]}

\* the first occurrence of each distinct row, in the order of the rows
FirstOccurrences(rows) ==
    LET first == FirstIndexes(rows)
        rank(i) == Cardinality({j \in first : j <= i})
    IN  [k \in 1..Cardinality(first) |-> rows[CHOOSE i \in first : rank(i) = k]]

\* C16: deduplication outputs exactly the first occurrence of each distinct
\* record, in the original relative order, absent markers equal to each other;
\* right after the step no two records compare fully equal.
C16_DedupRule ==
    [][pc = "step2" /\ pc' = "step3" =>
          /\ df'.columns = df.columns
          /\ df'.rows = FirstOccurrences(df.rows)
          /\ \A i, j \in 1..Len(df'.rows) : i # j => df'.rows[i] # df'.rows[j]
          /\ dups_removed' = Len(df.rows) - Len(df'.rows)]_vars

\* a record, another one and a copy of the first: the copy is gone, the order
\* is kept
C16_Witness ==
    /\ pc = "step3"
    /\ Len(df_raw.rows) = 3
    /\ df_raw.rows[1] = df_raw.rows[3]
    /\ df_raw.rows[2]["order_id"] = S("O2")
    /\ Len(df.rows) = 2
    /\ df.rows[1]["order_id"] = S("O1") /\ df.rows[2]["order_id"] = S("O2")
    /\ dups_removed = 1

\* the null-sentinel strings
NullSentinels ==
    {S("N/A"), S("n/a"), S("na"), S("NA"), S("-"), S("--"), S("."), S("none"),
     S("None"), S("null"), S("NULL"), <<>>}

\* C17: column pruning drops a column if and only if every one of its values
\* is the absent marker; a column holding only null-sentinel strings is kept,
\* the remaining columns and all rows are unchanged, and right after pruning
\* every remaining column has at least one non-absent value.
C17_PruningRule ==
    [][pc = "step1" /\ pc' = "step2" =>
          LET allAbsent(c) == \A i \in 1..Len(df.rows) : isna(df.rows[i][c])
          IN  /\ df'.columns = SelectSeq(df.columns, LAMBDA c : ~allAbsent(c))
              /\ \A c \in ColumnSet(df) :
                    (Len(df.rows) > 0 /\ \A i \in 1..Len(df.rows) : df.rows[i][c] \in NullSentinels)
                        => c \in ColumnSet(df')
              /\ Len(df'.rows) = Len(df.rows)
              /\ \A i \in 1..Len(df.rows) :
                    /\ DOMAIN df'.rows[i] = ColumnSet(df')
                    /\ \A c \in ColumnSet(df') : df'.rows[i][c] = df.rows[i][c]
              /\ \A c \in ColumnSet(df') :
                    \E i \in 1..Len(df'.rows) : ~isna(df'.rows[i][c])]_vars

\* a column of absent values is gone, a column of the sentinel '-' is kept
C17_Witness ==
    /\ pc = "step2"
    /\ Len(df_raw.rows) = 1
    /\ df_raw.rows[1]["customer_email"] = S("-")
    /\ isna(df_raw.rows[1]["notes"])
    /\ "customer_email" \in ColumnSet(df)
    /\ "notes" \notin ColumnSet(df)
    /\ df.rows[1]["customer_email"] = S("-")

\* step 2 has run
AfterDedup == pc \notin {"snapshot", "step1", "step2"}

\* no order identifier in two records of the working table
OrderIdsDistinct ==
    \A i, j \in 1..Len(df.rows) :
        i # j => df.rows[i]["order_id"] # df.rows[j]["order_id"]

\* C18 as stated: after deduplication every order identifier occurs in at most
\* one record of the table.
C18_OrderIdUnique ==
    AfterDedup /\ "order_id" \in ColumnSet(df) => OrderIdsDistinct

\* C18, amended: when the records of the raw table that share an order
\* identifier are equal in every column, every order identifier occurs in at
\* most one record of the table after deduplication.
C18_OrderIdUniqueAmongCopies ==
    /\ AfterDedup
    /\ "order_id" \in ColumnSet(df)
    /\ \A i, j \in 1..Len(df_raw.rows) :
          df_raw.rows[i]["order_id"] = df_raw.rows[j]["order_id"]
              => df_raw.rows[i] = df_raw.rows[j]
    => OrderIdsDistinct

\* two orders and a copy of the first, deduplicated
C18_Witness ==
    /\ pc = "step3"
    /\ Len(df_raw.rows) = 3
    /\ df_raw.rows[1] = df_raw.rows[3]
    /\ df_raw.rows[1]["order_id"] = S("O1")
    /\ df_raw.rows[2]["order_id"] = S("O2")
    /\ Len(df.rows) = 2
    /\ OrderIdsDistinct

(***************************************************************************)
(* Null coercion (SpecNull)                                                *)
(***************************************************************************)
\* the value nullable-text normalization gives, by the rule of the claim
ClaimedCoercion(v) ==
    IF ~isna(v) /\ strip(v) \in NullSentinels THEN NaN ELSE v

\* C19: nullable-text normalization, applied to the email and phone columns
\* only, replaces a value by the absent marker exactly when its trimmed form is
\* a null sentinel and returns every other value unchanged; after the step
\* neither column holds a value whose trimmed form is a sentinel.
C19_NullRule ==
    /\ [](fn = "coerce_null" /\ pc = "fn_once" => res = ClaimedCoercion(arg))
    /\ [][pc = "step6" /\ pc' = "step7" =>
             /\ df'.columns = df.columns
             /\ Len(df'.rows) = Len(df.rows)
             /\ \A i \in 1..Len(df.rows) : \A c \in ColumnSet(df) :
                   df'.rows[i][c] =
                       IF c \in {"customer_email", "customer_phone"}
                       THEN ClaimedCoercion(df.rows[i][c])
                       ELSE df.rows[i][c]
             /\ \A i \in 1..Len(df'.rows) : \A c \in {"customer_email", "customer_phone"} :
                   isna(df'.rows[i][c]) \/ strip(df'.rows[i][c]) \notin NullSentinels]_vars

\* a padded sentinel in the email column has become absent, the phone next to
\* it is as it was
C19_Witness ==
    /\ pc = "step7"
    /\ Len(df_raw.rows) = 1
    /\ df_raw.rows[1]["customer_email"] = S(" na ")
    /\ isna(df.rows[1]["customer_email"])
    /\ df.rows[1]["customer_phone"] = S("(555) 123-4567")

(***************************************************************************)
(* The order of the date formats (SpecDate)                                *)
(***************************************************************************)
\* a raw date without the whitespace and quotes around it
Unwrapped(v) == stripChars(stripChars(strip(v), {"\""}), {"'"})

\* the formats of the list that parse the whole string
ParsingFormats(v) ==
    {i \in 1..Len(DATE_FORMATS) : to_datetime(Unwrapped(v), DATE_FORMATS[i]).ok}

\* the list in the opposite order
ReversedFormats ==
    [i \in 1..Len(DATE_FORMATS) |-> DATE_FORMATS[Len(DATE_FORMATS) + 1 - i]]

\* C21 as stated: some raw date string parses under more than one of the five
\* formats (and the earliest of them decides).
C21_SomeStringParsesTwice ==
    fn = "parse_date" =>
        \E o \in DateOrigins : Cardinality(ParsingFormats(RawDate(o))) > 1

\* C21, amended: no raw date string parses under more than one of the five
\* formats, so the result is that of the only format that parses it and is
\* the same when the list is tried in the opposite order.
C21_OneFormatAtMost ==
    (pc = "fn_once" /\ fn = "parse_date" /\ ~isna(arg)) =>
        /\ Cardinality(ParsingFormats(arg)) <= 1
        /\ res = try_formats(Unwrapped(arg), ReversedFormats, 1)

\* a date whose day and month are both at most 12: only MM/DD/YYYY reads it
C21_Witness ==
    /\ pc = "fn_once" /\ fn = "parse_date"
    /\ arg = S("03/04/2023") /\ res = S("2023-03-04")
    /\ ParsingFormats(arg) = {1}

(***************************************************************************)
(* The figures of the summary (Spec)                                       *)
(***************************************************************************)
\* C22: the duplicate count of the cleaning summary, computed by deduplicating
\* the raw table (before column pruning), equals rows_before - rows_after of
\* the deduplication step (after column pruning), and equals the raw row count
\* minus the cleaned row count.
C22_DuplicateCounts ==
    pc \in {"schema", "done"} =>
        /\ summary_data.duplicates = dups_removed
        /\ summary_data.duplicates = Len(df_raw.rows) - Len(df.rows)
        /\ summary_data.dups_removed_count = summary_data.duplicates

\* a raw table of three rows, one a copy of another, with its empty columns
\* pruned before the deduplication
C22_Witness ==
    /\ pc = "done"
    /\ Len(df_raw.rows) = 3 /\ Len(df.rows) = 2
    /\ "notes" \in ColumnSet(df_raw) /\ "notes" \notin ColumnSet(df)
    /\ summary_data.duplicates = 1 /\ dups_removed = 1

(***************************************************************************)
(* What steps 3 to 10 leave alone (Spec)                                   *)
(***************************************************************************)
\* the columns each step's cell assigns to
STEP_COLUMNS ==
    "step3" :> {"order_date"} @@ "step4" :> {"price"} @@ "step5" :> {"sku"}
    @@ "step6" :> {"customer_email", "customer_phone"}
    @@ "step7" :> {"product_name"} @@ "step8" :> {"customer_phone"}
    @@ "step9" :> {"shipping_country"} @@ "step10" :> {"status"}

\* the cells of the columns outside cols are the same before and after
OnlyChanges(cols) ==
    /\ df'.columns = df.columns
    /\ Len(df'.rows) = Len(df.rows)
    /\ \A i \in 1..Len(df.rows) :
          /\ DOMAIN df'.rows[i] = DOMAIN df.rows[i]
          /\ \A c \in ColumnSet(df) \ cols : df'.rows[i][c] = df.rows[i][c]

\* C23 as stated: each of the steps 3 to 10 changes values in one column only.
C23_OneColumnPerStep ==
    [][(pc \in DOMAIN STEP_COLUMNS) =>
          (\E c \in ColumnSet(df_raw) : OnlyChanges({c}))]_vars

\* C23: each of the steps 3 to 10 changes values only in the columns of its
\* own cell (two for step 6, one for every other step) and leaves every other
\* column, the number of rows and the row order unchanged; after every step
\* the column set of the working table is a subset of the raw table's.
C23_StepFrame ==
    [][/\ pc \in DOMAIN STEP_COLUMNS =>
             (/\ OnlyChanges(STEP_COLUMNS[pc])
              /\ (Cardinality(STEP_COLUMNS[pc]) = 1 \/ pc = "step6"))
       /\ ColumnSet(df') \subseteq ColumnSet(df_raw')]_vars

\* step 6 has run on a two-row table and made the sentinel of one row's email
\* and of the other row's phone absent, the other columns as in the raw table
C23_Witness ==
    /\ pc = "step7"
    /\ Len(df_raw.rows) = 2 /\ Len(df.rows) = 2
    /\ df_raw.rows[1]["customer_email"] = S("-") /\ isna(df.rows[1]["customer_email"])
    /\ df_raw.rows[2]["customer_phone"] = S("--") /\ isna(df.rows[2]["customer_phone"])
    /\ \A i \in 1..2 : /\ df.rows[i]["order_id"] = df_raw.rows[i]["order_id"]
                       /\ df.rows[i]["quantity"] = df_raw.rows[i]["quantity"]
                       /\ df.rows[i]["status"] = df_raw.rows[i]["status"]

(***************************************************************************)
(* The generator's values through the cleaning functions (SpecGen):        *)
(* generate_messy_data.py writes a value, the notebook reads it back from  *)
(* the CSV file and cleans it.                                             *)
(***************************************************************************)
BASE_SKUS ==
    <<S("SKU-001"), S("SKU-002"), S("SKU-003"), S("SKU-004"), S("SKU-005"),
      S("SKU-006"), S("SKU-007"), S("SKU-008"), S("SKU-009"), S("SKU-010")>>

PRODUCT_NAMES ==
    <<S("Gr") \o <<"U+00FC">> \o S("ner Tee"),
      S("T") \o <<"U+00FC">> \o S("rk") \o <<"U+00E7">> \o S("e Klavye Seti"),
      <<"U+00D6">> \o S("l") \o <<"U+00E7", "U+00FC">> \o S(" Aleti Premium"),
      S("Caf") \o <<"U+00E9">> \o S(" Blend Dark Roast"),
      S("Na") \o <<"U+00EF">> \o S("ve Art Print Set"),
      S("R") \o <<"U+00E9">> \o S("sum") \o <<"U+00E9">> \o S(" Template Pro"),
      S("Cr") \o <<"U+00E8">> \o S("me Br") \o <<"U+00FB">> \o S("l") \o <<"U+00E9">>
          \o S("e Torch Kit"),
      S("Pi") \o <<"U+00F1">> \o S("ata Party Pack"),
      <<"U+00DC">> \o S("ber Comfort Pillow"),
      S("El Ni") \o <<"U+00F1">> \o S("o Weather Station")>>

\* messy_sku with random.randint(0, 3) = choice
messy_sku(base_sku, choice) ==
    IF choice = 0 THEN base_sku
    ELSE IF choice = 1 THEN lower(base_sku)
    ELSE IF choice = 2 THEN capitalize(base_sku)
    ELSE replace(base_sku, S("-"), <<>>)

\* bs.decode("latin-1")
decode_latin1(bs) ==
    [i \in 1..Len(bs) |-> IF IsAscii(bs[i]) THEN bs[i] ELSE Chr(ByteVal(bs[i]))]

\* messy_product_name with the first draw below 0.30 (corrupt) and the second
\* below 0.20 (pad) or not
messy_product_name(name, corrupt, pad) ==
    LET result == IF corrupt THEN decode_latin1(encode_utf8(name)) ELSE name
    IN  IF pad THEN result \o S("   ") ELSE result

\* a text cell written by to_csv and read by read_csv
ReadBack(cell) == IF cell \in NA_VALUES THEN NaN ELSE cell

NoBase == <<"none">>

InitGen ==
    /\ PipelineIdle
    /\ pc = "gen" /\ arg = Unset /\ res = Unset /\ res2 = Unset
    /\ \/ fn = "clean_sku" /\ origin \in {BASE_SKUS[i] : i \in 1..Len(BASE_SKUS)}
       \/ fn = "fix_encoding" /\ origin \in {PRODUCT_NAMES[i] : i \in 1..Len(PRODUCT_NAMES)}
       \/ fn \in {"clean_country", "clean_status"} /\ origin = NoBase

GenFrame ==
    UNCHANGED <<fn, res, res2, origin>> /\ UNCHANGED pipeVars /\ UNCHANGED otherVars

\* "sku": messy_sku(base_sku)
MessySkuStep ==
    /\ pc = "gen" /\ fn = "clean_sku"
    /\ \E choice \in 0..3 : arg' = ReadBack(messy_sku(origin, choice))
    /\ pc' = "fn_in"
    /\ GenFrame

\* "product_name": messy_product_name(base_name)
MessyProductNameStep ==
    /\ pc = "gen" /\ fn = "fix_encoding"
    /\ \E corrupt, pad \in BOOLEAN : arg' = ReadBack(messy_product_name(origin, corrupt, pad))
    /\ pc' = "fn_in"
    /\ GenFrame

\* "shipping_country": random.choice(SHIPPING_COUNTRIES)
ShippingCountryStep ==
    /\ pc = "gen" /\ fn = "clean_country"
    /\ \E v \in SHIPPING_COUNTRIES : arg' = ReadBack(v)
    /\ pc' = "fn_in"
    /\ GenFrame

\* "status": random.choice(STATUS_VARIANTS)
StatusVariantStep ==
    /\ pc = "gen" /\ fn = "clean_status"
    /\ \E v \in STATUS_VARIANTS : arg' = ReadBack(v)
    /\ pc' = "fn_in"
    /\ GenFrame

NextGen ==
    \/ MessySkuStep \/ CleanSkuStep
    \/ MessyProductNameStep \/ FixEncodingStep
    \/ ShippingCountryStep \/ CleanCountryStep
    \/ StatusVariantStep \/ CleanStatusStep

SpecGen == InitGen /\ [][NextGen]_vars

\* C24: for every base SKU and every variant the generator makes of it
\* (unchanged, lowercased, capitalized, dash removed), SKU normalization
\* returns exactly the base SKU.
C24_SkuRestored ==
    (pc = "fn_once" /\ fn = "clean_sku") => res = origin

\* the tenth SKU, written without its dash, is back as it was
C24_Witness ==
    /\ pc = "fn_once" /\ fn = "clean_sku"
    /\ origin = S("SKU-010") /\ arg = S("SKU010") /\ res = S("SKU-010")

\* C25: for every product name of the generator and every corruption it can
\* apply (UTF-8 bytes read as Latin-1, trailing spaces, both, neither),
\* encoding repair returns exactly the original name; an uncorrupted name with
\* accented characters is not altered.
C25_NameRestored ==
    (pc = "fn_once" /\ fn = "fix_encoding") =>
        /\ res = origin
        /\ arg = origin => (res = arg /\ \E i \in 1..Len(arg) : ~IsAscii(arg[i]))

\* a name read as Latin-1 and padded is back as it was
C25_Witness ==
    /\ pc = "fn_once" /\ fn = "fix_encoding"
    /\ origin = PRODUCT_NAMES[7]
    /\ arg = S("Cr") \o <<"U+00C3", "U+00A8">> \o S("me Br") \o <<"U+00C3", "U+00BB">>
                 \o S("l") \o <<"U+00C3", "U+00A9">> \o S("e Torch Kit   ")
    /\ res = origin

COUNTRY_CODES == {S("US"), S("CA"), S("GB"), S("DE"), S("FR"), S("AU")}

STATUS_VALUES ==
    {S("shipped"), S("delivered"), S("processing"), S("cancelled"), S("pending")}

\* C26: every shipping-country variant the generator emits is normalized to
\* one of the six codes US, CA, GB, DE, FR, AU, and every status variant to one
\* of the five values shipped, delivered, processing, cancelled, pending.
C26_GeneratedCategories ==
    /\ (pc = "fn_once" /\ fn = "clean_country") => res \in COUNTRY_CODES
    /\ (pc = "fn_once" /\ fn = "clean_status") => res \in STATUS_VALUES

\* a spelt-out country has been normalized to its code
C26_Witness ==
    /\ pc = "fn_once" /\ fn = "clean_country"
    /\ arg = S("United Kingdom") /\ res = S("GB")

(***************************************************************************)
(* One phone value through steps 6 and 8 in both orders (SpecPhone):       *)
(* res follows the notebook's order, res2 the opposite one.                *)
(***************************************************************************)
PhoneOrderInputs == PhoneInputs \cup NullInputs

InitPhone == InitFn("steps_6_8", PhoneOrderInputs)

\* step 6 on the raw value
CoerceRawPhone ==
    /\ fn = "steps_6_8" /\ pc = "fn_in"
    /\ res' = coerce_null(arg)
    /\ pc' = "coerced"
    /\ UNCHANGED res2
    /\ FnFrame

\* step 8 on what step 6 left
CleanCoercedPhone ==
    /\ fn = "steps_6_8" /\ pc = "coerced"
    /\ res' = clean_phone(res)
    /\ pc' = "fn_once"
    /\ UNCHANGED res2
    /\ FnFrame

\* step 8 on the raw value
CleanRawPhone ==
    /\ fn = "steps_6_8" /\ pc = "fn_once"
    /\ res2' = clean_phone(arg)
    /\ pc' = "cleaned"
    /\ UNCHANGED res
    /\ FnFrame

\* step 6 on what step 8 left
CoerceCleanedPhone ==
    /\ fn = "steps_6_8" /\ pc = "cleaned"
    /\ res2' = coerce_null(res2)
    /\ pc' = "fn_twice"
    /\ UNCHANGED res
    /\ FnFrame

NextPhone == CoerceRawPhone \/ CleanCoercedPhone \/ CleanRawPhone \/ CoerceCleanedPhone

SpecPhone == InitPhone /\ [][NextPhone]_vars

\* C27: for every phone value, null-sentinel coercion followed by phone
\* normalization gives what phone normalization alone gives, and so does phone
\* normalization followed by coercion: the order of steps 6 and 8 does not
\* affect the cleaned phone.
C27_PhoneOrderFree ==
    (fn = "steps_6_8" /\ pc \in {"cleaned", "fn_twice"}) => res = res2

\* a padded sentinel: step 6 makes it absent, step 8 alone finds no digit in it
C27_Witness ==
    /\ fn = "steps_6_8" /\ pc = "fn_twice"
    /\ arg = S(" N/A ") /\ isna(coerce_null(arg)) /\ isna(res) /\ isna(res2)

(***************************************************************************)
(* The export and the report's before/after samples (SpecReport): the      *)
(* notebook writes df to the cleaned CSV file, build_case_study.py reads   *)
(* both files and picks its sample rows.                                   *)
(***************************************************************************)
\* df.to_csv(output_file, index=False): an absent value is an empty cell
to_csv(t) ==
    [columns |-> t.columns,
     rows |-> [i \in 1..Len(t.rows) |->
                  [c \in ColumnSet(t) |-> IF isna(t.rows[i][c]) THEN <<>> ELSE t.rows[i][c]]]]

\* sub in s
has_substring(s, sub) ==
    \E i \in 1..(Len(s) - Len(sub) + 1) : SubSeq(s, i, i + Len(sub) - 1) = sub

IsUpperLetter(c) == \E i \in 1..26 : UpperCase[i] = c

IsLowerLetter(c) == \E i \in 1..26 : LowerCase[i] = c

\* re.match(r"^[A-Z][a-z]+ \d", s)
MatchesMonthName(s) ==
    \E k \in 1..Len(s) :
        /\ Len(s) >= k + 3
        /\ IsUpperLetter(s[1])
        /\ \A j \in 2..(k + 1) : IsLowerLetter(s[j])
        /\ s[k + 2] = " "
        /\ s[k + 3] \in Digits

\* re.match(r"^\d{2}\.\d{2}\.\d{4}$", s)
MatchesDottedDate(s) ==
    /\ Len(s) = 10
    /\ \A j \in {1, 2, 4, 5, 7, 8, 9, 10} : s[j] \in Digits
    /\ s[3] = "." /\ s[6] = "."

NUM_PATTERNS == 6

\* pick_messy_samples: whether a row shows the k-th messy pattern
ShowsPattern(row, k) ==
    IF k = 1 THEN /\ ~isna(row["product_name"])
                  /\ contains(row["product_name"], "U+00C3")
                  /\ row["status"] \in {S("Cancellled"), S("deliverred")}
    ELSE IF k = 2 THEN ~isna(row["price"]) /\ contains(row["price"], Euro)
    ELSE IF k = 3 THEN ~isna(row["price"]) /\ has_substring(row["price"], S("TL"))
    ELSE IF k = 4 THEN row["shipping_country"]
                           \in {S("germany"), S("Australia"), S("United States")}
    ELSE IF k = 5 THEN ~isna(row["order_date"]) /\ MatchesMonthName(row["order_date"])
    ELSE ~isna(row["order_date"]) /\ MatchesDottedDate(row["order_date"])

RECURSIVE PickIndices(_, _, _)
\* the row positions pick_messy_samples collects, pattern by pattern: the first
\* row showing the pattern that is not picked yet
PickIndices(t, k, indices) ==
    IF k > NUM_PATTERNS THEN indices
    ELSE LET picked == {indices[j] : j \in 1..Len(indices)}
             cand == {i \in 1..Len(t.rows) : ShowsPattern(t.rows[i], k) /\ i \notin picked}
         IN  PickIndices(t, k + 1,
                 IF cand = {} THEN indices
                 ELSE Append(indices, CHOOSE i \in cand : \A j \in cand : i <= j))

\* pick_messy_samples(df, n=6): df.loc[indices[:n]]
pick_messy_samples(t, n) ==
    LET indices == PickIndices(t, 1, <<>>)
    IN  [j \in 1..(IF Len(indices) < n THEN Len(indices) ELSE n) |-> t.rows[indices[j]]]

\* Series.str raises AttributeError on a column that is not of strings
HasStrAccessor(t, col) == dtype_of(t, col) = "object"

\* df_clean[df_clean["order_id"].isin(ids)].drop_duplicates(subset="order_id")
\* .set_index("order_id").loc[ids].reset_index(): ok = FALSE is KeyError
select_by_order_id(t, ids) ==
    LET first(id) == CHOOSE i \in 1..Len(t.rows) :
                         /\ t.rows[i]["order_id"] = id
                         /\ \A j \in 1..(i - 1) : t.rows[j]["order_id"] # id
        found(id) == \E i \in 1..Len(t.rows) : t.rows[i]["order_id"] = id
    IN  IF "order_id" \notin ColumnSet(t) THEN [ok |-> FALSE, rows |-> <<>>]
        ELSE IF \E k \in 1..Len(ids) : ~found(ids[k]) THEN [ok |-> FALSE, rows |-> <<>>]
        ELSE [ok |-> TRUE, rows |-> [k \in 1..Len(ids) |-> t.rows[first(ids[k])]]]

\* the rows of the report's files: a record; one priced in euro; one shipped to
\* "germany"; one with a dotted date and no status; one with three patterns
MaxSampleRows == 3

SampleRows ==
    {BaseRow,
     [BaseRow EXCEPT !["price"] = <<Euro>> \o S("45.00")],
     [BaseRow EXCEPT !["order_id"] = S("O2"), !["shipping_country"] = S("germany")],
     [BaseRow EXCEPT !["order_id"] = S("O3"), !["order_date"] = S("03.04.2023"),
                     !["status"] = <<>>],
     [BaseRow EXCEPT !["order_id"] = S("O4"),
                     !["product_name"] = <<"T", "U+00C3", "U+00BC">>,
                     !["status"] = S("Cancellled"),
                     !["price"] = S("45.00 TL"),
                     !["order_date"] = S("Mar 04, 2023")]}

SampleFiles ==
    {[columns |-> COLUMNS, rows |-> r] :
        r \in UNION {[1..n -> SampleRows] : n \in 1..MaxSampleRows}}

InitReport ==
    /\ pc = "snapshot"
    /\ df_raw \in {read_csv(file) : file \in CsvFiles \cup SampleFiles}
    /\ df = NoTable
    /\ before_shape = <<0, 0>> /\ before_dtypes = <<>> /\ before_nulls = 0
    /\ before_sample = NoTable /\ dups_removed = 0 /\ after_shape = <<0, 0>>
    /\ summary_data = NoSummary /\ schema_data = NoSchema
    /\ df_clean = NoTable /\ messy_samples = <<>> /\ clean_samples = <<>>
    /\ gen_df = NoTable
    /\ fn = "none" /\ arg = Unset /\ res = Unset /\ res2 = Unset
    /\ origin = NoOrigin

\* Section 5 of the notebook, and the report's pd.read_csv(CLEAN_CSV)
Export ==
    /\ pc = "done"
    /\ df_clean' = read_csv(to_csv(df))
    /\ pc' = "exported"
    /\ UNCHANGED <<messy_samples, clean_samples, gen_df>>
    /\ UNCHANGED pipeVars
    /\ UNCHANGED fnVars

\* build_case_study.py, section 3
PickSamples ==
    /\ pc = "exported"
    /\ IF ~HasStrAccessor(df_raw, "product_name") \/ ~HasStrAccessor(df_raw, "order_date")
       THEN /\ pc' = "report_crashed"
            /\ UNCHANGED <<messy_samples, clean_samples>>
       ELSE LET samples == pick_messy_samples(df_raw, SAMPLE_ROWS)
                sample_order_ids == [j \in 1..Len(samples) |-> samples[j]["order_id"]]
                selected == select_by_order_id(df_clean, sample_order_ids)
            IN  /\ messy_samples' = samples
                /\ clean_samples' = selected.rows
                /\ pc' = IF selected.ok THEN "reported" ELSE "report_crashed"
    /\ UNCHANGED <<df_clean, gen_df>>
    /\ UNCHANGED pipeVars
    /\ UNCHANGED fnVars

NextReport == Next \/ Export \/ PickSamples

SpecReport == InitReport /\ [][NextReport]_vars

OrderIds(rows) == {rows[i]["order_id"] : i \in 1..Len(rows)}

\* C28: every order identifier of the raw table occurs in the cleaned table,
\* so the report finds its after-sample: one row per before-sample row, in the
\* same order, the i-th rows of the two samples with the same order identifier.
C28_SamplesPaired ==
    /\ pc \in {"exported", "reported", "report_crashed"} =>
          /\ "order_id" \in ColumnSet(df_clean)
          /\ OrderIds(df_raw.rows) \subseteq OrderIds(df_clean.rows)
    /\ pc # "report_crashed"
    /\ pc = "reported" =>
          /\ messy_samples = pick_messy_samples(df_raw, SAMPLE_ROWS)
          /\ Len(clean_samples) = Len(messy_samples)
          /\ \A i \in 1..Len(messy_samples) :
                /\ clean_samples[i]["order_id"] = messy_samples[i]["order_id"]
                /\ \E j \in 1..Len(df_clean.rows) : df_clean.rows[j] = clean_samples[i]

\* a row with three patterns and its copy are both in the before-sample, a
\* euro-priced row between them; the cleaned table holds the row once
C28_Witness ==
    /\ pc = "reported"
    /\ Len(df_raw.rows) = 3 /\ Len(df_clean.rows) = 2
    /\ [i \in 1..Len(messy_samples) |-> messy_samples[i]["order_id"]]
           = <<S("O4"), S("O1"), S("O4")>>
    /\ [i \in 1..Len(clean_samples) |-> clean_samples[i]["order_id"]]
           = <<S("O4"), S("O1"), S("O4")>>
    /\ clean_samples[1]["status"] = S("cancelled")

(***************************************************************************)
(* The generated file through pruning and deduplication (SpecData):        *)
(* generate_dataset builds the table, the notebook reads it and runs its   *)
(* first two steps. The two row counts are bounds standing for the         *)
(* generator's 120_000 and 5_000.                                          *)
(***************************************************************************)
NUM_BASE_ROWS == 3

NUM_DUPLICATE_ROWS == 2

FIRST_ORDER_NUMBER == 10001

\* messy_quantity with random.randint(0, 2) = choice, as to_csv writes it: the
\* str "5", the int 5, the float 5.0
messy_quantity(qty, choice) ==
    IF choice = 2 THEN IntStr(qty) \o S(".0") ELSE IntStr(qty)

\* the i-th base row (i from 0) as to_csv writes it, None as an empty cell
GeneratedRow(i, choice) ==
    "order_id" :> S("ORD-") \o IntStr(FIRST_ORDER_NUMBER + i)
    @@ "sku" :> messy_sku(BASE_SKUS[1], 0)
    @@ "product_name" :> messy_product_name(PRODUCT_NAMES[1], FALSE, FALSE)
    @@ "order_date" :> messy_date(FirstYear, 3, 4, 1)
    @@ "price" :> S("$45.00")
    @@ "quantity" :> messy_quantity(5, choice)
    @@ "customer_email" :> S("a@b")
    @@ "customer_phone" :> S("(555) 123-4567")
    @@ "shipping_country" :> S("US") @@ "status" :> S("shipped")
    @@ "_unnamed_1" :> <<>> @@ "_unnamed_2" :> <<>> @@ "notes" :> <<>>

InitData ==
    /\ PipelineIdle
    /\ pc = "gen_rows"
    /\ fn = "none" /\ arg = Unset /\ res = Unset /\ res2 = Unset /\ origin = NoOrigin

GeneratorFrame ==
    /\ UNCHANGED <<df, before_shape, before_dtypes, before_nulls, before_sample,
                   dups_removed, after_shape, summary_data, schema_data>>
    /\ UNCHANGED reportVars
    /\ UNCHANGED fnVars

\* for i in range(NUM_BASE_ROWS): rows.append(row)
GenerateBaseRows ==
    /\ pc = "gen_rows"
    /\ \E choice \in [1..NUM_BASE_ROWS -> 0..2] :
          gen_df' = [columns |-> COLUMNS,
                     rows |-> [i \in 1..NUM_BASE_ROWS |-> GeneratedRow(i - 1, choice[i])]]
    /\ pc' = "gen_dups"
    /\ UNCHANGED df_raw
    /\ GeneratorFrame

\* a slip: df.sample(n, replace=True), a row may be drawn more than once
InjectDuplicates_with_replacement ==
    /\ pc = "gen_dups"
    /\ NUM_DUPLICATE_ROWS <= Len(gen_df.rows)
    /\ \E drawn \in [1..NUM_DUPLICATE_ROWS -> 1..Len(gen_df.rows)] :
          gen_df' = [gen_df EXCEPT !.rows =
                        gen_df.rows \o [k \in 1..NUM_DUPLICATE_ROWS |-> gen_df.rows[drawn[k]]]]
    /\ pc' = "gen_shuffle"
    /\ UNCHANGED df_raw
    /\ GeneratorFrame

\* duplicates = df.sample(n=NUM_DUPLICATE_ROWS): rows drawn without
\* replacement (ValueError when n exceeds the row count), then pd.concat
InjectDuplicates ==
    /\ pc = "gen_dups"
    /\ NUM_DUPLICATE_ROWS <= Len(gen_df.rows)
    /\ \E drawn \in [1..NUM_DUPLICATE_ROWS -> 1..Len(gen_df.rows)] :
          /\ \A j, k \in 1..NUM_DUPLICATE_ROWS : j # k => drawn[j] # drawn[k]
          /\ gen_df' = [gen_df EXCEPT !.rows =
                           gen_df.rows \o [k \in 1..NUM_DUPLICATE_ROWS |-> gen_df.rows[drawn[k]]]]
    /\ pc' = "gen_shuffle"
    /\ UNCHANGED df_raw
    /\ GeneratorFrame

\* df.sample(frac=1).reset_index(drop=True)
Shuffle ==
    /\ pc = "gen_shuffle"
    /\ \E order \in Permutations(1..Len(gen_df.rows)) :
          gen_df' = [gen_df EXCEPT !.rows = [i \in 1..Len(gen_df.rows) |-> gen_df.rows[order[i]]]]
    /\ pc' = "gen_save"
    /\ UNCHANGED df_raw
    /\ GeneratorFrame

\* df.to_csv(OUTPUT_FILE, index=False), and the notebook's pd.read_csv
SaveAndRead ==
    /\ pc = "gen_save"
    /\ df_raw' = read_csv(gen_df)
    /\ pc' = "snapshot"
    /\ UNCHANGED gen_df
    /\ GeneratorFrame

NextData ==
    \/ GenerateBaseRows \/ InjectDuplicates \/ Shuffle \/ SaveAndRead
    \/ Snapshot \/ Step1_DropEmptyColumns \/ Step2_RemoveDuplicates

SpecData == InitData /\ [][NextData]_vars

\* how many rows of the table equal the row r
Copies(rows, r) == Cardinality({i \in 1..Len(rows) : rows[i] = r})

RowSet(rows) == {rows[i] : i \in 1..Len(rows)}

GeneratedOrderIds == {S("ORD-") \o IntStr(FIRST_ORDER_NUMBER + i) : i \in 0..(NUM_BASE_ROWS - 1)}

\* NUM_BASE_ROWS records with pairwise distinct identifiers, NUM_DUPLICATE_ROWS
\* of them twice, no record more than twice
BaseRowsAndCopies(rows) ==
    /\ Len(rows) = NUM_BASE_ROWS + NUM_DUPLICATE_ROWS
    /\ Cardinality(RowSet(rows)) = NUM_BASE_ROWS
    /\ OrderIds(rows) = GeneratedOrderIds
    /\ \A r \in RowSet(rows) : Copies(rows, r) <= 2
    /\ Cardinality({r \in RowSet(rows) : Copies(rows, r) = 2}) = NUM_DUPLICATE_ROWS

\* C29: the generated table is NUM_BASE_ROWS records with pairwise distinct
\* order identifiers plus NUM_DUPLICATE_ROWS exact copies of pairwise distinct
\* base records, shuffled; deduplicating it removes exactly NUM_DUPLICATE_ROWS
\* records and leaves exactly the NUM_BASE_ROWS base records.
C29_GeneratedDuplicates ==
    /\ pc = "gen_dups" =>
          /\ Len(gen_df.rows) = NUM_BASE_ROWS
          /\ \A i, j \in 1..NUM_BASE_ROWS :
                i # j => gen_df.rows[i]["order_id"] # gen_df.rows[j]["order_id"]
    /\ pc \in {"gen_shuffle", "gen_save"} => BaseRowsAndCopies(gen_df.rows)
    /\ pc \in {"snapshot", "step1", "step2", "step3"} => BaseRowsAndCopies(df_raw.rows)
    /\ pc = "step3" =>
          /\ dups_removed = NUM_DUPLICATE_ROWS
          /\ Len(df.rows) = NUM_BASE_ROWS
          /\ OrderIds(df.rows) = GeneratedOrderIds
          /\ RowSet(df.rows) =
                {[c \in ColumnSet(df) |-> r[c]] : r \in RowSet(df_raw.rows)}

\* the copies stand apart from their originals in the shuffled file, and the
\* deduplicated table holds the base records in their order of first occurrence
C29_Witness ==
    /\ pc = "step3"
    /\ [i \in 1..Len(df_raw.rows) |-> df_raw.rows[i]["order_id"]]
           = <<S("ORD-10002"), S("ORD-10001"), S("ORD-10003"), S("ORD-10002"), S("ORD-10001")>>
    /\ [i \in 1..Len(df.rows) |-> df.rows[i]["order_id"]]
           = <<S("ORD-10002"), S("ORD-10001"), S("ORD-10003")>>
    /\ dups_removed = 2

====
